---------------------------- MODULE Spec2Model ----------------------------
(***************************************************************************)
(* Wine record deduplication and fuzzy merging (src/src/pdf_processor.py). *)
(*                                                                         *)
(* A Python str is a sequence of Unicode code points (naturals), so that   *)
(* len(), slicing, `in`, split() and the regular expressions of the source *)
(* are computed character by character.  A similarity score is an exact    *)
(* rational <<numerator, denominator>> in lowest terms.  None and "" are   *)
(* both the empty sequence: every branch of the source tests optional      *)
(* fields by truthiness only.                                              *)
(***************************************************************************)
EXTENDS Integers, Sequences, FiniteSets, TLC

(***************************************************************************)
(* Characters.                                                             *)
(***************************************************************************)
SP == 32

\* str.isspace() and the class \s of re (str patterns).
IsSpace(c) ==
    \/ c \in 9..13
    \/ c \in 28..32
    \/ c \in {133, 160, 5760, 8232, 8233, 8239, 8287, 12288}
    \/ c \in 8192..8202

\* [0-9]
IsAsciiDigit(c) == c \in 48..57

\* The class \d of re (str patterns): ASCII digits and full-width digits.
IsDigit(c) == c \in 48..57 \/ c \in 65296..65305

\* japanese_ranges of contains_japanese.
InJapaneseRange(c) ==
    \/ c \in 12352..12447    \* 0x3040-0x309F hiragana
    \/ c \in 12448..12543    \* 0x30A0-0x30FF katakana
    \/ c \in 19968..40879    \* 0x4E00-0x9FAF kanji
    \/ c \in 13312..19903    \* 0x3400-0x4DBF CJK extension A
    \/ c \in 65382..65439    \* 0xFF66-0xFF9F half-width katakana
    \/ c \in 12288..12351    \* 0x3000-0x303F CJK symbols and punctuation
    \/ c \in 65281..65376    \* 0xFF01-0xFF60 full-width ASCII variants

\* The class \w of re (str patterns) on the characters of the model:
\* letters, digits and the underscore; kana, kanji and the long-vowel mark
\* are letters, the middle dot and the CJK brackets are punctuation.
IsWordChar(c) ==
    \/ c \in 48..57 \/ c \in 65..90 \/ c \in 97..122 \/ c = 95
    \/ c \in 192..214 \/ c \in 216..246 \/ c \in 248..255
    \/ c \in 12353..12438    \* hiragana letters
    \/ c \in 12449..12538    \* katakana letters
    \/ c \in 12540..12543    \* long-vowel mark, iteration marks
    \/ c \in 19968..40879 \/ c \in 13312..19903
    \/ c \in 65296..65305 \/ c \in 65313..65338 \/ c \in 65345..65370
    \/ c \in 65382..65439

\* unicodedata.normalize('NFKD', .) followed by the removal of combining
\* marks, on one character: the base letter of an accented Latin-1 letter.
StripAccent(c) ==
    CASE c \in 192..197 -> 65      \* A
      [] c = 199 -> 67             \* C
      [] c \in 200..203 -> 69      \* E
      [] c \in 204..207 -> 73      \* I
      [] c = 209 -> 78             \* N
      [] c \in 210..214 -> 79      \* O
      [] c \in 217..220 -> 85      \* U
      [] c = 221 -> 89             \* Y
      [] c \in 224..229 -> 97      \* a
      [] c = 231 -> 99             \* c
      [] c \in 232..235 -> 101     \* e
      [] c \in 236..239 -> 105     \* i
      [] c = 241 -> 110            \* n
      [] c \in 242..246 -> 111     \* o
      [] c \in 249..252 -> 117     \* u
      [] c \in {253, 255} -> 121   \* y
      [] OTHER -> c

\* str.lower() on one character (ASCII and Latin-1 capitals).
LowerChar(c) ==
    IF c \in 65..90 \/ c \in 192..214 \/ c \in 216..222 THEN c + 32 ELSE c

Lower(s) == [i \in 1..Len(s) |-> LowerChar(s[i])]

(***************************************************************************)
(* Strings.                                                                *)
(***************************************************************************)
Indices(s) == [i \in 1..Len(s) |-> i]

MinOf(S) == CHOOSE x \in S : \A y \in S : x <= y
MaxOf(S) == CHOOSE x \in S : \A y \in S : x >= y

\* str.strip()
Strip(s) ==
    LET solid == {i \in 1..Len(s) : ~IsSpace(s[i])}
    IN  IF solid = {} THEN <<>> ELSE SubSeq(s, MinOf(solid), MaxOf(solid))

\* re.sub(r'\s+', ' ', s)
CollapseSpaces(s) ==
    LET first(i) == ~IsSpace(s[i]) \/ i = 1 \/ ~IsSpace(s[i - 1])
        idx == SelectSeq(Indices(s), first)
    IN  [k \in 1..Len(idx) |-> IF IsSpace(s[idx[k]]) THEN SP ELSE s[idx[k]]]

\* str.split(): the maximal runs of non-space characters, in order.
Split(s) ==
    LET starts(i) == ~IsSpace(s[i]) /\ (i = 1 \/ IsSpace(s[i - 1]))
        idx == SelectSeq(Indices(s), starts)
        stop(i) == MinOf({j \in i..Len(s) : j = Len(s) \/ IsSpace(s[j + 1])})
    IN  [k \in 1..Len(idx) |-> SubSeq(s, idx[k], stop(idx[k]))]

\* set(s.split())
WordSet(s) == {Split(s)[k] : k \in 1..Len(Split(s))}

StartsWithAt(s, p, pat) ==
    /\ p + Len(pat) - 1 <= Len(s)
    /\ \A k \in 1..Len(pat) : s[p + k - 1] = pat[k]

EndsWith(s, pat) ==
    /\ Len(pat) <= Len(s)
    /\ \A k \in 1..Len(pat) : s[Len(s) - Len(pat) + k] = pat[k]

\* pat in s
Contains(s, pat) == \E p \in 1..(Len(s) - Len(pat) + 1) : StartsWithAt(s, p, pat)

\* The length of the whitespace run that ends at position p (0: none).
SpacesBefore(s, p) ==
    IF p < 1 \/ ~IsSpace(s[p]) THEN 0
    ELSE p - MaxOf({0} \cup {i \in 1..p : ~IsSpace(s[i])})

\* The length of the whitespace run that starts at position p (0: none).
SpacesFrom(s, p) ==
    IF p > Len(s) \/ ~IsSpace(s[p]) THEN 0
    ELSE MinOf({Len(s) + 1} \cup {i \in p..Len(s) : ~IsSpace(s[i])}) - p


(***************************************************************************)
(* html.unescape, for decimal character references: "&#12508;" is one      *)
(* katakana letter.  A reference out of the Unicode range is U+FFFD.       *)
(***************************************************************************)
RECURSIVE DecimalValue(_, _, _)
DecimalValue(s, a, b) ==
    IF b < a THEN 0 ELSE DecimalValue(s, a, b - 1) * 10 + (s[b] - 48)

RECURSIVE UnescapeFrom(_, _)
UnescapeFrom(s, p) ==
    IF p > Len(s) THEN <<>>
    ELSE IF s[p] = 38 /\ p + 2 <= Len(s) /\ s[p + 1] = 35 /\ IsAsciiDigit(s[p + 2])
    THEN LET last == MinOf({j \in (p + 2)..Len(s) :
                               j = Len(s) \/ ~IsAsciiDigit(s[j + 1])})
             n == DecimalValue(s, p + 2, last)
             next == IF last < Len(s) /\ s[last + 1] = 59 THEN last + 2 ELSE last + 1
             c == IF n = 0 \/ n > 1114111 \/ n \in 55296..57343 THEN 65533 ELSE n
         IN  <<c>> \o UnescapeFrom(s, next)
    ELSE <<s[p]>> \o UnescapeFrom(s, p + 1)

html_unescape(s) ==
    IF \A i \in 1..Len(s) : s[i] # 38 THEN s ELSE UnescapeFrom(s, 1)

\* contains_japanese: some non-space character of the unescaped text lies in
\* one of the Japanese ranges.
contains_japanese(text) ==
    IF text = <<>> THEN FALSE
    ELSE LET t == html_unescape(text)
         IN  \E i \in 1..Len(t) : ~IsSpace(t[i]) /\ InJapaneseRange(t[i])

(***************************************************************************)
(* normalize_wine_name                                                     *)
(***************************************************************************)
\* re.sub(r'<[^>]+>', '', s)
RECURSIVE RemoveTagsFrom(_, _)
RemoveTagsFrom(s, p) ==
    IF p > Len(s) THEN <<>>
    ELSE LET closing == {q \in (p + 1)..Len(s) : s[q] = 62}
         IN  IF s[p] = 60 /\ closing # {} /\ MinOf(closing) >= p + 2
             THEN RemoveTagsFrom(s, MinOf(closing) + 1)
             ELSE <<s[p]>> \o RemoveTagsFrom(s, p + 1)

RemoveTags(s) ==
    IF \A i \in 1..Len(s) : s[i] # 60 THEN s ELSE RemoveTagsFrom(s, 1)

\* r'\s+(nv|non vintage|brut|sec|demi-sec|doux|rouge|blanc|rose|vin|wine)$'
wine_suffixes_1 == <<
    <<110, 118>>,  \* nv
    <<110, 111, 110, 32, 118, 105, 110, 116, 97, 103, 101>>,  \* non vintage
    <<98, 114, 117, 116>>,  \* brut
    <<115, 101, 99>>,  \* sec
    <<100, 101, 109, 105, 45, 115, 101, 99>>,  \* demi-sec
    <<100, 111, 117, 120>>,  \* doux
    <<114, 111, 117, 103, 101>>,  \* rouge
    <<98, 108, 97, 110, 99>>,  \* blanc
    <<114, 111, 115, 101>>,  \* rose
    <<118, 105, 110>>,  \* vin
    <<119, 105, 110, 101>>  \* wine
    >>

\* r'\s+(zero|dosage zero|extra brut|extra dry)$'
wine_suffixes_2 == <<
    <<122, 101, 114, 111>>,  \* zero
    <<100, 111, 115, 97, 103, 101, 32, 122, 101, 114, 111>>,  \* dosage zero
    <<101, 120, 116, 114, 97, 32, 98, 114, 117, 116>>,  \* extra brut
    <<101, 120, 116, 114, 97, 32, 100, 114, 121>>  \* extra dry
    >>

\* r'\s+(reserve|reserva|gran reserva|riserva)$'
wine_suffixes_3 == <<
    <<114, 101, 115, 101, 114, 118, 101>>,  \* reserve
    <<114, 101, 115, 101, 114, 118, 97>>,  \* reserva
    <<103, 114, 97, 110, 32, 114, 101, 115, 101, 114, 118, 97>>,  \* gran reserva
    <<114, 105, 115, 101, 114, 118, 97>>  \* riserva
    >>

\* r'\s+(cuvee|special|selection|premium|classic)$'
wine_suffixes_4 == <<
    <<99, 117, 118, 101, 101>>,  \* cuvee
    <<115, 112, 101, 99, 105, 97, 108>>,  \* special
    <<115, 101, 108, 101, 99, 116, 105, 111, 110>>,  \* selection
    <<112, 114, 101, 109, 105, 117, 109>>,  \* premium
    <<99, 108, 97, 115, 115, 105, 99>>  \* classic
    >>

\* r'^(le|la|les|de|du|des|the|a|an|von|vom|zur|della|del|di|da)\s+'
leading_articles == {
    <<108, 101>>,  \* le
    <<108, 97>>,  \* la
    <<108, 101, 115>>,  \* les
    <<100, 101>>,  \* de
    <<100, 117>>,  \* du
    <<100, 101, 115>>,  \* des
    <<116, 104, 101>>,  \* the
    <<97>>,  \* a
    <<97, 110>>,  \* an
    <<118, 111, 110>>,  \* von
    <<118, 111, 109>>,  \* vom
    <<122, 117, 114>>,  \* zur
    <<100, 101, 108, 108, 97>>,  \* della
    <<100, 101, 108>>,  \* del
    <<100, 105>>,  \* di
    <<100, 97>>  \* da
    }

\* r'\s+(de|du|des|von|vom|zur|della|del|di|da)\s+'
inner_articles == {
    <<100, 101>>,  \* de
    <<100, 117>>,  \* du
    <<100, 101, 115>>,  \* des
    <<118, 111, 110>>,  \* von
    <<118, 111, 109>>,  \* vom
    <<122, 117, 114>>,  \* zur
    <<100, 101, 108, 108, 97>>,  \* della
    <<100, 101, 108>>,  \* del
    <<100, 105>>,  \* di
    <<100, 97>>  \* da
    }

\* r'\s+(aoc|aop|doc|docg|igp|vdp|appellation)\s*'
region_indicators == <<
    <<97, 111, 99>>,  \* aoc
    <<97, 111, 112>>,  \* aop
    <<100, 111, 99>>,  \* doc
    <<100, 111, 99, 103>>,  \* docg
    <<105, 103, 112>>,  \* igp
    <<118, 100, 112>>,  \* vdp
    <<97, 112, 112, 101, 108, 108, 97, 116, 105, 111, 110>>  \* appellation
    >>

\* the literal japanese_suffixes: NV, aka (red), shiro (white), roze (rose)
japanese_suffixes == <<
    <<78, 86>>,  \* NV
    <<36196>>,  \* IDEOGRAPH-8D64
    <<30333>>,  \* IDEOGRAPH-767D
    <<12525, 12476>>  \* RO ZE
    >>

\* re.sub(r'\s*X$', '', s) for a literal X.
StripTail(s, x) ==
    IF x # <<>> /\ EndsWith(s, x)
    THEN LET cut == Len(s) - Len(x)
         IN  SubSeq(s, 1, cut - SpacesBefore(s, cut))
    ELSE s

\* re.sub(r'\s*[0-9]{4}$', '', s)
StripJapaneseYear(s) ==
    IF Len(s) >= 4 /\ \A k \in 0..3 : IsAsciiDigit(s[Len(s) - k])
    THEN SubSeq(s, 1, Len(s) - 4 - SpacesBefore(s, Len(s) - 4))
    ELSE s

\* re.sub(r'\s+(a1|a2|...)$', '', s): the match starts at the leftmost
\* whitespace run that is followed by one alternative and the end.
StripSuffix(s, alts) ==
    LET fits == {k \in 1..Len(alts) :
                    /\ EndsWith(s, alts[k])
                    /\ SpacesBefore(s, Len(s) - Len(alts[k])) >= 1}
    IN  IF fits = {} THEN s
        ELSE LET k == CHOOSE k \in fits : \A m \in fits : Len(alts[m]) <= Len(alts[k])
                 cut == Len(s) - Len(alts[k])
             IN  SubSeq(s, 1, cut - SpacesBefore(s, cut))

\* re.sub(r'\s+\d{2,4}$', '', s)
StripYear(s) ==
    LET fits == {k \in 2..4 :
                    /\ k <= Len(s)
                    /\ \A d \in 0..(k - 1) : IsDigit(s[Len(s) - d])
                    /\ SpacesBefore(s, Len(s) - k) >= 1}
    IN  IF fits = {} THEN s
        ELSE LET cut == Len(s) - MaxOf(fits)
             IN  SubSeq(s, 1, cut - SpacesBefore(s, cut))

\* The maximal run of non-space characters that starts at position p.
WordAt(s, p) ==
    IF p > Len(s) \/ IsSpace(s[p]) THEN <<>>
    ELSE SubSeq(s, p, MinOf({j \in p..Len(s) : j = Len(s) \/ IsSpace(s[j + 1])}))

\* re.sub(r'^(le|la|...)\s+', ' ', s)
StripLeadingArticle(s) ==
    LET w == WordAt(s, 1)
        gap == SpacesFrom(s, Len(w) + 1)
    IN  IF w \in leading_articles /\ gap >= 1
        THEN <<SP>> \o SubSeq(s, Len(w) + gap + 1, Len(s))
        ELSE s

\* re.sub(r'\s+(de|du|...)\s+', ' ', s): the matches are found left to right
\* and do not overlap, so the whitespace a match consumed cannot open the next.
RECURSIVE StripInnerArticlesFrom(_, _)
StripInnerArticlesFrom(s, p) ==
    IF p > Len(s) THEN <<>>
    ELSE LET lead == SpacesFrom(s, p)
             w == WordAt(s, p + lead)
             trail == SpacesFrom(s, p + lead + Len(w))
         IN  IF lead >= 1 /\ w \in inner_articles /\ trail >= 1
             THEN <<SP>> \o StripInnerArticlesFrom(s, p + lead + Len(w) + trail)
             ELSE <<s[p]>> \o StripInnerArticlesFrom(s, p + 1)

\* re.sub(r'\s+(aoc|aop|doc|docg|igp|vdp|appellation)\s*', ' ', s): no word
\* boundary follows the alternative, and the first alternative that matches
\* is taken.
RECURSIVE StripRegionIndicatorsFrom(_, _)
StripRegionIndicatorsFrom(s, p) ==
    IF p > Len(s) THEN <<>>
    ELSE LET lead == SpacesFrom(s, p)
             hits == {k \in 1..Len(region_indicators) :
                         StartsWithAt(s, p + lead, region_indicators[k])}
         IN  IF lead >= 1 /\ hits # {}
             THEN LET after == p + lead + Len(region_indicators[MinOf(hits)])
                  IN  <<SP>> \o StripRegionIndicatorsFrom(s, after + SpacesFrom(s, after))
             ELSE <<s[p]>> \o StripRegionIndicatorsFrom(s, p + 1)

\* The characters of the bracket and quote class of line 201.
japanese_punctuation == {40, 41, 65288, 65289, 91, 93, 12304, 12305, 34, 39}

\* The Japanese branch (lines 153-161).
NormalizeJapanese(s) ==
    LET s0 == CollapseSpaces(Strip(s))
        s1 == StripTail(s0, japanese_suffixes[1])
        s2 == StripJapaneseYear(s1)
        s3 == StripTail(s2, japanese_suffixes[2])
        s4 == StripTail(s3, japanese_suffixes[3])
    IN  StripTail(s4, japanese_suffixes[4])

\* The branch of every other text (lines 163-193).
NormalizeLatin(s) ==
    LET s0 == [i \in 1..Len(s) |-> StripAccent(s[i])]
        s1 == Strip(s0)
        s2 == CollapseSpaces(Lower(s1))
        s3 == StripSuffix(s2, wine_suffixes_1)
        s4 == StripSuffix(s3, wine_suffixes_2)
        s5 == StripSuffix(s4, wine_suffixes_3)
        s6 == StripSuffix(s5, wine_suffixes_4)
        s7 == StripYear(s6)
        s8 == StripLeadingArticle(s7)
        s9 == StripInnerArticlesFrom(s8, 1)
    IN  StripRegionIndicatorsFrom(s9, 1)

\* Lines 195-204: the characters the last substitution keeps.
KeptJapanese(c) == c \notin japanese_punctuation

KeptLatin(c) == IsWordChar(c) \/ IsSpace(c) \/ c = 45 \/ c = 46

RemovePunctuation(clean) ==
    IF contains_japanese(clean)
    THEN SelectSeq(clean, KeptJapanese)
    ELSE SelectSeq(clean, KeptLatin)

normalize_wine_name(name) ==
    IF name = <<>> THEN <<>>
    ELSE RemovePunctuation(CollapseSpaces(Strip(
             IF contains_japanese(name) THEN NormalizeJapanese(RemoveTags(name))
             ELSE NormalizeLatin(RemoveTags(name)))))


(***************************************************************************)
(* Scores: exact rationals <<n, d>>, d > 0, in lowest terms.               *)
(***************************************************************************)
RECURSIVE GCD(_, _)
GCD(a, b) == IF b = 0 THEN a ELSE GCD(b, a % b)

Rat(n, d) == IF n = 0 THEN <<0, 1>> ELSE <<n \div GCD(n, d), d \div GCD(n, d)>>
RatLE(a, b) == a[1] * b[2] <= b[1] * a[2]
RatLT(a, b) == a[1] * b[2] < b[1] * a[2]
RatMax(a, b) == IF RatLE(a, b) THEN b ELSE a
RatMin(a, b) == IF RatLE(a, b) THEN a ELSE b
RatAdd(a, b) == Rat(a[1] * b[2] + b[1] * a[2], a[2] * b[2])
RatScale(a, k) == Rat(a[1] * k, a[2])
RatDiv(a, k) == Rat(a[1], a[2] * k)
Zero == Rat(0, 1)
One == Rat(1, 1)

(***************************************************************************)
(* extract_wine_identity                                                   *)
(***************************************************************************)
\* r'(champagne|cremant|cava|prosecco|sparkling)'
type_pattern_1 == <<
    <<99, 104, 97, 109, 112, 97, 103, 110, 101>>,  \* champagne
    <<99, 114, 101, 109, 97, 110, 116>>,  \* cremant
    <<99, 97, 118, 97>>,  \* cava
    <<112, 114, 111, 115, 101, 99, 99, 111>>,  \* prosecco
    <<115, 112, 97, 114, 107, 108, 105, 110, 103>>  \* sparkling
    >>

\* r'(chardonnay|sauvignon|pinot|merlot|cabernet|syrah|shiraz)'
type_pattern_2 == <<
    <<99, 104, 97, 114, 100, 111, 110, 110, 97, 121>>,  \* chardonnay
    <<115, 97, 117, 118, 105, 103, 110, 111, 110>>,  \* sauvignon
    <<112, 105, 110, 111, 116>>,  \* pinot
    <<109, 101, 114, 108, 111, 116>>,  \* merlot
    <<99, 97, 98, 101, 114, 110, 101, 116>>,  \* cabernet
    <<115, 121, 114, 97, 104>>,  \* syrah
    <<115, 104, 105, 114, 97, 122>>  \* shiraz
    >>

\* r'(rouge|blanc|rose|red|white|pink)'
type_pattern_3 == <<
    <<114, 111, 117, 103, 101>>,  \* rouge
    <<98, 108, 97, 110, 99>>,  \* blanc
    <<114, 111, 115, 101>>,  \* rose
    <<114, 101, 100>>,  \* red
    <<119, 104, 105, 116, 101>>,  \* white
    <<112, 105, 110, 107>>  \* pink
    >>

\* r'(brut|sec|demi|doux|dry|sweet)'
type_pattern_4 == <<
    <<98, 114, 117, 116>>,  \* brut
    <<115, 101, 99>>,  \* sec
    <<100, 101, 109, 105>>,  \* demi
    <<100, 111, 117, 120>>,  \* doux
    <<100, 114, 121>>,  \* dry
    <<115, 119, 101, 101, 116>>  \* sweet
    >>

\* r'(reserve|premium|grand|cuvee)'
type_pattern_5 == <<
    <<114, 101, 115, 101, 114, 118, 101>>,  \* reserve
    <<112, 114, 101, 109, 105, 117, 109>>,  \* premium
    <<103, 114, 97, 110, 100>>,  \* grand
    <<99, 117, 118, 101, 101>>  \* cuvee
    >>

type_patterns ==
    <<type_pattern_1, type_pattern_2, type_pattern_3, type_pattern_4, type_pattern_5>>

stop_words == {
    <<100, 101>>,  \* de
    <<100, 117>>,  \* du
    <<100, 101, 115>>,  \* des
    <<108, 101>>,  \* le
    <<108, 97>>,  \* la
    <<108, 101, 115>>,  \* les
    <<116, 104, 101>>,  \* the
    <<97, 110, 100>>,  \* and
    <<101, 116>>,  \* et
    <<118, 111, 110>>,  \* von
    <<118, 111, 109>>,  \* vom
    <<100, 101, 108, 108, 97>>,  \* della
    <<100, 101, 108>>,  \* del
    <<100, 105>>,  \* di
    <<100, 97>>,  \* da
    <<119, 105, 110, 101>>,  \* wine
    <<118, 105, 110>>,  \* vin
    <<118, 105, 110, 111>>,  \* vino
    <<100, 111, 109, 97, 105, 110, 101>>,  \* domaine
    <<99, 104, 97, 116, 101, 97, 117>>,  \* chateau
    <<101, 115, 116, 97, 116, 101>>,  \* estate
    <<119, 105, 110, 101, 114, 121>>,  \* winery
    <<99, 97, 118, 101>>,  \* cave
    <<109, 97, 105, 115, 111, 110>>  \* maison
    }

transliteration_pairs == <<
    \* BO NI TO U RA: bonitura
    <<<<12508, 12491, 12488, 12453, 12521>>,
      <<<<98, 111, 110, 105, 116, 117, 114, 97>>>>>>,
    \* PI NO . GU RI - ZI YO: pinot grigio, pinot gris
    <<<<12500, 12494, 12539, 12464, 12522, 12540, 12472, 12519>>,
      <<<<112, 105, 110, 111, 116, 32, 103, 114, 105, 103, 105, 111>>, <<112, 105, 110, 111, 116, 32, 103, 114, 105, 115>>>>>>,
    \* KO - TO . DO . GA SU KO - NI YU: cotes de gascogne, c CIRCUMFLEX t e s   d e   g a s c o g n e
    <<<<12467, 12540, 12488, 12539, 12489, 12539, 12460, 12473, 12467, 12540, 12491, 12517>>,
      <<<<99, 111, 116, 101, 115, 32, 100, 101, 32, 103, 97, 115, 99, 111, 103, 110, 101>>, <<99, 244, 116, 101, 115, 32, 100, 101, 32, 103, 97, 115, 99, 111, 103, 110, 101>>>>>>,
    \* MO N TE . A RA YA . TE N PU RA NI - RI YO . BU RA N KO: monte araya tempranillo blanco
    <<<<12514, 12531, 12486, 12539, 12450, 12521, 12516, 12539, 12486, 12531, 12503, 12521, 12491, 12540, 12522, 12519, 12539, 12502, 12521, 12531, 12467>>,
      <<<<109, 111, 110, 116, 101, 32, 97, 114, 97, 121, 97, 32, 116, 101, 109, 112, 114, 97, 110, 105, 108, 108, 111, 32, 98, 108, 97, 110, 99, 111>>>>>>,
    \* PU TE I . SI YA BU RI: petit chablis
    <<<<12503, 12486, 12451, 12539, 12471, 12515, 12502, 12522>>,
      <<<<112, 101, 116, 105, 116, 32, 99, 104, 97, 98, 108, 105, 115>>>>>>,
    \* TO SU KA - NA . RO SA - TO: toscana rosato
    <<<<12488, 12473, 12459, 12540, 12490, 12539, 12525, 12469, 12540, 12488>>,
      <<<<116, 111, 115, 99, 97, 110, 97, 32, 114, 111, 115, 97, 116, 111>>>>>>,
    \* A RU MA . DE . TI RI: alma de chile
    <<<<12450, 12523, 12510, 12539, 12487, 12539, 12481, 12522>>,
      <<<<97, 108, 109, 97, 32, 100, 101, 32, 99, 104, 105, 108, 101>>>>>>,
    \* PI NO . NO WA - RU: pinot noir
    <<<<12500, 12494, 12539, 12494, 12527, 12540, 12523>>,
      <<<<112, 105, 110, 111, 116, 32, 110, 111, 105, 114>>>>>>,
    \* KA BE RU NE . SO - VU I NI YO N: cabernet sauvignon
    <<<<12459, 12505, 12523, 12493, 12539, 12477, 12540, 12532, 12451, 12491, 12520, 12531>>,
      <<<<99, 97, 98, 101, 114, 110, 101, 116, 32, 115, 97, 117, 118, 105, 103, 110, 111, 110>>>>>>,
    \* RA SO N: razon
    <<<<12521, 12477, 12531>>,
      <<<<114, 97, 122, 111, 110>>>>>>,
    \* SI YA RU DO NE: chardonnay
    <<<<12471, 12515, 12523, 12489, 12493>>,
      <<<<99, 104, 97, 114, 100, 111, 110, 110, 97, 121>>>>>>,
    \* ME RU RO -: merlot
    <<<<12513, 12523, 12525, 12540>>,
      <<<<109, 101, 114, 108, 111, 116>>>>>>,
    \* RI - SU RI N GU: riesling
    <<<<12522, 12540, 12473, 12522, 12531, 12464>>,
      <<<<114, 105, 101, 115, 108, 105, 110, 103>>>>>>,
    \* SO - VU I NI YO N . BU RA N: sauvignon blanc
    <<<<12477, 12540, 12532, 12451, 12491, 12520, 12531, 12539, 12502, 12521, 12531>>,
      <<<<115, 97, 117, 118, 105, 103, 110, 111, 110, 32, 98, 108, 97, 110, 99>>>>>>,
    \* SI RA -: syrah, shiraz
    <<<<12471, 12521, 12540>>,
      <<<<115, 121, 114, 97, 104>>, <<115, 104, 105, 114, 97, 122>>>>>>,
    \* HU RA N SU: france, french
    <<<<12501, 12521, 12531, 12473>>,
      <<<<102, 114, 97, 110, 99, 101>>, <<102, 114, 101, 110, 99, 104>>>>>>,
    \* I TA RI A: italy, italian
    <<<<12452, 12479, 12522, 12450>>,
      <<<<105, 116, 97, 108, 121>>, <<105, 116, 97, 108, 105, 97, 110>>>>>>,
    \* SU PE I N: spain, spanish
    <<<<12473, 12506, 12452, 12531>>,
      <<<<115, 112, 97, 105, 110>>, <<115, 112, 97, 110, 105, 115, 104>>>>>>,
    \* DO I TU: germany, german
    <<<<12489, 12452, 12484>>,
      <<<<103, 101, 114, 109, 97, 110, 121>>, <<103, 101, 114, 109, 97, 110>>>>>>,
    \* A ME RI KA: america, american, usa
    <<<<12450, 12513, 12522, 12459>>,
      <<<<97, 109, 101, 114, 105, 99, 97>>, <<97, 109, 101, 114, 105, 99, 97, 110>>, <<117, 115, 97>>>>>>,
    \* KA RI HU O RU NI A: california
    <<<<12459, 12522, 12501, 12457, 12523, 12491, 12450>>,
      <<<<99, 97, 108, 105, 102, 111, 114, 110, 105, 97>>>>>>,
    \* NA PA . VU A RE -: napa valley
    <<<<12490, 12497, 12539, 12532, 12449, 12524, 12540>>,
      <<<<110, 97, 112, 97, 32, 118, 97, 108, 108, 101, 121>>>>>>,
    \* SO NO MA: sonoma
    <<<<12477, 12494, 12510>>,
      <<<<115, 111, 110, 111, 109, 97>>>>>>,
    \* BO RU DO -: bordeaux
    <<<<12508, 12523, 12489, 12540>>,
      <<<<98, 111, 114, 100, 101, 97, 117, 120>>>>>>,
    \* BU RU GO - NI YU: burgundy, bourgogne
    <<<<12502, 12523, 12468, 12540, 12491, 12517>>,
      <<<<98, 117, 114, 103, 117, 110, 100, 121>>, <<98, 111, 117, 114, 103, 111, 103, 110, 101>>>>>>,
    \* RO WA - RU: loire
    <<<<12525, 12527, 12540, 12523>>,
      <<<<108, 111, 105, 114, 101>>>>>>,
    \* SI YA N PA - NI YU: champagne
    <<<<12471, 12515, 12531, 12497, 12540, 12491, 12517>>,
      <<<<99, 104, 97, 109, 112, 97, 103, 110, 101>>>>>>,
    \* PU RO VU A N SU: provence
    <<<<12503, 12525, 12532, 12449, 12531, 12473>>,
      <<<<112, 114, 111, 118, 101, 110, 99, 101>>>>>>,
    \* PI E MO N TE: piemonte, piedmont
    <<<<12500, 12456, 12514, 12531, 12486>>,
      <<<<112, 105, 101, 109, 111, 110, 116, 101>>, <<112, 105, 101, 100, 109, 111, 110, 116>>>>>>,
    \* TO SU KA - NA: toscana, tuscany
    <<<<12488, 12473, 12459, 12540, 12490>>,
      <<<<116, 111, 115, 99, 97, 110, 97>>, <<116, 117, 115, 99, 97, 110, 121>>>>>>,
    \* RI O HA: rioja
    <<<<12522, 12458, 12495>>,
      <<<<114, 105, 111, 106, 97>>>>>>
    >>

wine_terms_jp == <<
    <<12500, 12494>>,  \* PI NO
    <<12471, 12515, 12523, 12489, 12493>>,  \* SI YA RU DO NE
    <<12459, 12505, 12523, 12493>>,  \* KA BE RU NE
    <<12513, 12523, 12525, 12540>>,  \* ME RU RO -
    <<12471, 12521, 12540>>,  \* SI RA -
    <<12522, 12540, 12473, 12522, 12531, 12464>>,  \* RI - SU RI N GU
    <<12477, 12540, 12532, 12451, 12491, 12520, 12531>>  \* SO - VU I NI YO N
    >>

wine_terms_en == <<
    <<112, 105, 110, 111, 116>>,  \* pinot
    <<99, 104, 97, 114, 100, 111, 110, 110, 97, 121>>,  \* chardonnay
    <<99, 97, 98, 101, 114, 110, 101, 116>>,  \* cabernet
    <<109, 101, 114, 108, 111, 116>>,  \* merlot
    <<115, 121, 114, 97, 104>>,  \* syrah
    <<115, 104, 105, 114, 97, 122>>,  \* shiraz
    <<114, 105, 101, 115, 108, 105, 110, 103>>,  \* riesling
    <<115, 97, 117, 118, 105, 103, 110, 111, 110>>  \* sauvignon
    >>

key_wine_terms == {
    <<99, 114, 101, 109, 97, 110, 116>>,  \* cremant
    <<108, 111, 105, 114, 101>>,  \* loire
    <<99, 104, 97, 109, 112, 97, 103, 110, 101>>,  \* champagne
    <<99, 104, 97, 98, 108, 105, 115>>,  \* chablis
    <<98, 111, 114, 100, 101, 97, 117, 120>>,  \* bordeaux
    <<98, 117, 114, 103, 117, 110, 100, 121>>,  \* burgundy
    <<115, 97, 110, 99, 101, 114, 114, 101>>,  \* sancerre
    <<98, 111, 110, 105, 116, 117, 114, 97>>,  \* bonitura
    <<116, 101, 109, 112, 114, 97, 110, 105, 108, 108, 111>>,  \* tempranillo
    <<99, 97, 98, 101, 114, 110, 101, 116>>,  \* cabernet
    <<112, 105, 110, 111, 116>>,  \* pinot
    <<99, 104, 97, 114, 100, 111, 110, 110, 97, 121>>  \* chardonnay
    }

common_words == {
    <<119, 105, 110, 101>>,  \* wine
    <<118, 105, 110>>,  \* vin
    <<118, 105, 110, 111>>,  \* vino
    <<99, 97, 115, 97>>,  \* casa
    <<100, 101>>,  \* de
    <<100, 101, 108>>,  \* del
    <<100, 101, 108, 108, 97>>,  \* della
    <<100, 117>>,  \* du
    <<103, 114, 97, 110, 100>>,  \* grand
    <<112, 101, 116, 105, 116>>,  \* petit
    <<114, 101, 115, 101, 114, 118, 101>>,  \* reserve
    <<114, 101, 115, 101, 114, 118, 97>>  \* reserva
    }

romanization_map == <<
    <<<<12508, 12491, 12488, 12453, 12521>>, <<98, 111, 110, 105, 116, 117, 114, 97>>>>,  \* BO NI TO U RA: bonitura
    <<<<12500, 12494>>, <<112, 105, 110, 111>>>>,  \* PI NO: pino
    <<<<12471, 12515, 12523, 12489, 12493>>, <<115, 104, 97, 114, 117, 100, 111, 110, 101>>>>,  \* SI YA RU DO NE: sharudone
    <<<<12459, 12505, 12523, 12493>>, <<107, 97, 98, 101, 114, 117, 110, 101>>>>,  \* KA BE RU NE: kaberune
    <<<<12513, 12523, 12525, 12540>>, <<109, 101, 114, 117, 114, 111>>>>,  \* ME RU RO -: meruro
    <<<<12522, 12540, 12473, 12522, 12531, 12464>>, <<114, 105, 105, 115, 117, 114, 105, 110, 103, 117>>>>  \* RI - SU RI N GU: riisuringu
    >>

wine_terms == <<
    <<99, 114, 101, 109, 97, 110, 116>>,  \* cremant
    <<98, 114, 117, 116>>,  \* brut
    <<122, 101, 114, 111>>,  \* zero
    <<98, 108, 97, 110, 99>>,  \* blanc
    <<114, 111, 117, 103, 101>>,  \* rouge
    <<114, 101, 115, 101, 114, 118, 101>>  \* reserve
    >>

\* re.findall(r'(a1|a2|...)', s) as a set: the scan goes left to right, takes
\* the first alternative that matches and resumes after the match.
RECURSIVE FindAllFrom(_, _, _)
FindAllFrom(alts, s, p) ==
    IF p > Len(s) THEN {}
    ELSE LET hits == {k \in 1..Len(alts) : StartsWithAt(s, p, alts[k])}
         IN  IF hits = {} THEN FindAllFrom(alts, s, p + 1)
             ELSE {alts[MinOf(hits)]}
                  \cup FindAllFrom(alts, s, p + Len(alts[MinOf(hits)]))

\* The words of a normalized string longer than n characters.
LongWords(s, n) == {w \in WordSet(s) : Len(w) > n}

\* The words longer than 2 characters that are no stop word.
KeyWords(s) == {w \in LongWords(s, 2) : w \notin stop_words}

\* Lines 212-263, given the normalized name of line 213.
Identity(wine, normalized_name) ==
    [name_words |-> KeyWords(normalized_name),
     producer_words |->
         IF wine.producer # <<>>
         THEN KeyWords(normalize_wine_name(wine.producer)) ELSE {},
     wine_types |->
         UNION {FindAllFrom(type_patterns[k], Lower(normalized_name), 1) :
                   k \in 1..Len(type_patterns)},
     regions |->
         (IF wine.region # <<>> THEN {normalize_wine_name(wine.region)} ELSE {})
         \cup
         (IF wine.country # <<>> THEN {normalize_wine_name(wine.country)} ELSE {}),
     grape_variety |->
         IF wine.grape_variety # <<>>
         THEN normalize_wine_name(wine.grape_variety) ELSE <<>>,
     original_name |-> wine.name,
     normalized_name |-> normalized_name]

extract_wine_identity(wine) == Identity(wine, normalize_wine_name(wine.name))

(***************************************************************************)
(* calculate_identity_similarity: the signals are <<score, weight>> with   *)
(* the weight in hundredths.                                               *)
(***************************************************************************)
RECURSIVE WeightedSum(_)
WeightedSum(sims) ==
    IF sims = <<>> THEN Zero
    ELSE RatAdd(RatScale(Head(sims)[1], Head(sims)[2]), WeightedSum(Tail(sims)))

RECURSIVE TotalWeight(_)
TotalWeight(sims) ==
    IF sims = <<>> THEN 0 ELSE Head(sims)[2] + TotalWeight(Tail(sims))

Smaller(a, b) == IF a <= b THEN a ELSE b

\* Lines 274-282: the Jaccard score of the name words, and a bonus when the
\* shared words are 70% of the smaller set.
NameSignals(nw1, nw2) ==
    IF nw1 # {} /\ nw2 # {}
    THEN <<<<Rat(Cardinality(nw1 \cap nw2), Cardinality(nw1 \cup nw2)), 40>>>>
         \o (IF 10 * Cardinality(nw1 \cap nw2)
                  >= 7 * Smaller(Cardinality(nw1), Cardinality(nw2))
             THEN <<<<One, 20>>>> ELSE <<>>)
    ELSE <<>>

\* Lines 288-292.
ProducerSignal(pw1, pw2) ==
    IF pw1 # {} /\ pw2 # {}
    THEN <<<<Rat(Cardinality(pw1 \cap pw2), Cardinality(pw1 \cup pw2)), 20>>>>
    ELSE <<>>

\* Lines 298-317: shared wine types, shared regions, the same grape variety.
SharedSignal(shared, weight) == IF shared THEN <<<<One, weight>>>> ELSE <<>>

\* Lines 323-333: with names of equal length the first argument's name is
\* the shorter one.
Containment(words_shorter, words_longer) ==
    Rat(Cardinality(words_shorter \cap words_longer), Cardinality(words_shorter))

ContainmentSignal(word_containment) ==
    IF RatLT(Rat(1, 2), word_containment)
    THEN <<<<word_containment, 10>>>> ELSE <<>>

SubstringSignal(name1, name2) ==
    IF name1 # <<>> /\ name2 # <<>> /\ Len(name1) > 5 /\ Len(name2) > 5
    THEN IF Len(name1) > Len(name2)
         THEN ContainmentSignal(Containment(WordSet(name2), WordSet(name1)))
         ELSE ContainmentSignal(Containment(WordSet(name1), WordSet(name2)))
    ELSE <<>>

\* Lines 336-342: the weighted mean of the signals.
WeightedMean(similarities) ==
    IF similarities = <<>> THEN Zero
    ELSE RatDiv(WeightedSum(similarities), TotalWeight(similarities))

calculate_identity_similarity(identity1, identity2) ==
    WeightedMean(
        NameSignals(identity1.name_words, identity2.name_words)
        \o ProducerSignal(identity1.producer_words, identity2.producer_words)
        \o SharedSignal(identity1.wine_types \cap identity2.wine_types # {}, 15)
        \o SharedSignal(identity1.regions \cap identity2.regions # {}, 10)
        \o SharedSignal(/\ identity1.grape_variety # <<>>
                        /\ identity1.grape_variety = identity2.grape_variety, 5)
        \o SubstringSignal(identity1.normalized_name, identity2.normalized_name))

(***************************************************************************)
(* get_japanese_content_score                                              *)
(***************************************************************************)
JpWeight(value, weight) ==
    IF value # <<>> /\ contains_japanese(value) THEN weight ELSE 0

\* A score that gives the name the weight 2.
NameWeightTwo(wine) ==
    JpWeight(wine.name, 2) + JpWeight(wine.producer, 3)
    + JpWeight(wine.description, 3) + JpWeight(wine.region, 1)
    + JpWeight(wine.country, 1) + JpWeight(wine.grape_variety, 1)

get_japanese_content_score(wine) ==
    JpWeight(wine.name, 20) + JpWeight(wine.producer, 3)
    + JpWeight(wine.description, 3) + JpWeight(wine.region, 1)
    + JpWeight(wine.country, 1) + JpWeight(wine.grape_variety, 1)

(***************************************************************************)
(* check_romanization_similarity, check_transliteration_similarity,        *)
(* check_substring_similarity                                              *)
(***************************************************************************)
\* Lines 624-626: some kana of the map is in the Japanese name and its
\* romanization in the other name.
RomanizationHit(jp_norm, en_norm) ==
    \E k \in 1..Len(romanization_map) :
        /\ Contains(jp_norm, romanization_map[k][1])
        /\ Contains(en_norm, romanization_map[k][2])

check_romanization_similarity(name1, name2) ==
    IF RomanizationHit(
           normalize_wine_name(IF contains_japanese(name1) THEN name1 ELSE name2),
           normalize_wine_name(IF contains_japanese(name1) THEN name2 ELSE name1))
    THEN Rat(9, 10) ELSE Zero

\* The normalized keys of transliteration_pairs (line 521).
transliteration_norm ==
    [k \in 1..Len(transliteration_pairs) |->
        normalize_wine_name(transliteration_pairs[k][1])]

\* zip(wine_terms_jp, wine_terms_en): the pairs up to the shorter list.
TermPairs == 1..Smaller(Len(wine_terms_jp), Len(wine_terms_en))

\* Lines 520-535: a pair of the table links the two normalized names.
TransliterationHit(norm1, norm2) ==
    \E k \in 1..Len(transliteration_pairs) :
        \E v \in 1..Len(transliteration_pairs[k][2]) :
            \/ /\ Contains(norm1, transliteration_norm[k])
               /\ Contains(norm2, transliteration_pairs[k][2][v])
            \/ /\ Contains(norm1, transliteration_pairs[k][2][v])
               /\ Contains(norm2, transliteration_norm[k])

\* Lines 537-545: a Japanese wine term in one raw name, the English term
\* zip pairs it with in the other normalized name.
TermHit(name1, name2, norm1, norm2) ==
    \E k \in TermPairs :
        \/ Contains(name1, wine_terms_jp[k]) /\ Contains(norm2, wine_terms_en[k])
        \/ Contains(name2, wine_terms_jp[k]) /\ Contains(norm1, wine_terms_en[k])

\* Lines 547-552.
RomanizedScore(name1, name2, romanized) ==
    IF /\ contains_japanese(name1) # contains_japanese(name2)
       /\ RatLT(Rat(7, 10), romanized)
    THEN romanized ELSE Zero

TransliterationScore(name1, name2, norm1, norm2) ==
    IF TransliterationHit(norm1, norm2) THEN Rat(95, 100)
    ELSE IF TermHit(name1, name2, norm1, norm2) THEN Rat(8, 10)
    ELSE RomanizedScore(name1, name2, check_romanization_similarity(name1, name2))

check_transliteration_similarity(name1, name2) ==
    IF name1 = <<>> \/ name2 = <<>> THEN Zero
    ELSE TransliterationScore(name1, name2, normalize_wine_name(name1),
                              normalize_wine_name(name2))

\* Lines 589-601: every significant word of the shorter name occurs in the
\* longer name.
SignificantWord(w) == w \notin common_words /\ Len(w) > 2

AllContained(shorter_words, longer) ==
    /\ shorter_words # <<>>
    /\ \A k \in 1..Len(shorter_words) : Contains(longer, shorter_words[k])

\* Lines 581-587 and 601.
OverlapScore(overlap_ratio, contained) ==
    IF RatLE(Rat(8, 10), overlap_ratio) THEN Rat(9, 10)
    ELSE IF RatLE(Rat(6, 10), overlap_ratio) THEN Rat(8, 10)
    ELSE IF RatLE(Rat(4, 10), overlap_ratio) THEN Rat(7, 10)
    ELSE IF contained THEN Rat(85, 100)
    ELSE Zero

\* Lines 562-601, given the words longer than 2 characters of each name; with
\* names of equal length the second name is the shorter one.
SubstringScore(norm1, norm2, words1, words2) ==
    IF words1 = {} \/ words2 = {} THEN Zero
    ELSE IF words1 \cap words2 = {} THEN Zero
    ELSE OverlapScore(
             Rat(Cardinality(words1 \cap words2),
                 Smaller(Cardinality(words1), Cardinality(words2))),
             IF Len(norm1) < Len(norm2)
             THEN AllContained(SelectSeq(Split(norm1), SignificantWord), norm2)
             ELSE AllContained(SelectSeq(Split(norm2), SignificantWord), norm1))

NormalizedSubstringScore(norm1, norm2) ==
    SubstringScore(norm1, norm2, LongWords(norm1, 2), LongWords(norm2, 2))

check_substring_similarity(name1, name2) ==
    IF name1 = <<>> \/ name2 = <<>> THEN Zero
    ELSE NormalizedSubstringScore(normalize_wine_name(name1),
                                  normalize_wine_name(name2))

(***************************************************************************)
(* calculate_wine_similarity                                               *)
(***************************************************************************)
\* Lines 441-455: the shared words longer than 3 characters.
WordOverlap(name1, name2, words1, words2) ==
    IF /\ name1 # <<>> /\ name2 # <<>>
       /\ words1 \cap words2 # {}
       /\ \E term \in key_wine_terms :
              Contains(name1, term) \/ Contains(name2, term)
    THEN Rat(9 * Cardinality(words1 \cap words2),
             10 * Smaller(Cardinality(words1), Cardinality(words2)))
    ELSE Zero

WordEscalation(name1, name2) ==
    WordOverlap(name1, name2, LongWords(name1, 3), LongWords(name2, 3))

\* The variant of the producer match that escalates to 0.6.
ProducerEscalationLow(wine1, wine2) ==
    IF wine1.producer # <<>> /\ wine2.producer # <<>>
    THEN IF LongWords(normalize_wine_name(wine1.producer), 2)
            \cap LongWords(normalize_wine_name(wine2.producer), 2) # {}
         THEN Rat(6, 10) ELSE Zero
    ELSE Zero

\* Lines 457-467: the producers share a word longer than 2 characters.
ProducerEscalation(wine1, wine2) ==
    IF wine1.producer # <<>> /\ wine2.producer # <<>>
    THEN IF LongWords(normalize_wine_name(wine1.producer), 2)
            \cap LongWords(normalize_wine_name(wine2.producer), 2) # {}
         THEN Rat(7, 10) ELSE Zero
    ELSE Zero

\* A score to which every escalation is added: similarity += score, and no
\* final min.
IdentityScoreSummed(wine1, wine2, identity1, identity2) ==
    RatAdd(RatAdd(RatAdd(RatAdd(
        calculate_identity_similarity(identity1, identity2),
        check_transliteration_similarity(wine1.name, wine2.name)),
        check_substring_similarity(wine1.name, wine2.name)),
        WordEscalation(identity1.normalized_name, identity2.normalized_name)),
        ProducerEscalation(wine1, wine2))

\* A score that a producer match sets to 0.7: similarity = 0.7 where the
\* code has similarity = max(similarity, 0.7).
IdentityScoreProducerSets(wine1, wine2, identity1, identity2) ==
    IF ProducerEscalation(wine1, wine2) # Zero
    THEN Rat(7, 10)
    ELSE RatMin(One,
             RatMax(RatMax(RatMax(
                 calculate_identity_similarity(identity1, identity2),
                 check_transliteration_similarity(wine1.name, wine2.name)),
                 check_substring_similarity(wine1.name, wine2.name)),
                 WordEscalation(identity1.normalized_name, identity2.normalized_name)))

\* Lines 419-469, given the two identities of lines 424-425.
IdentityScore(wine1, wine2, identity1, identity2) ==
    RatMin(One,
        RatMax(RatMax(RatMax(RatMax(
            calculate_identity_similarity(identity1, identity2),
            check_transliteration_similarity(wine1.name, wine2.name)),
            check_substring_similarity(wine1.name, wine2.name)),
            WordEscalation(identity1.normalized_name, identity2.normalized_name)),
            ProducerEscalation(wine1, wine2)))

calculate_wine_similarity(wine1, wine2) ==
    IdentityScore(wine1, wine2, extract_wine_identity(wine1),
                  extract_wine_identity(wine2))


(***************************************************************************)
(* WineInfo and merge_wine_info                                            *)
(***************************************************************************)
\* WineInfo(name=n, source_file=src), every optional field empty.
Wine(n, src) ==
    [name |-> n, producer |-> <<>>, country |-> <<>>, region |-> <<>>,
     grape_variety |-> <<>>, vintage |-> <<>>, price |-> <<>>,
     alcohol_content |-> <<>>, description |-> <<>>, source_file |-> src]

\* count_fields: the optional fields that are not empty.
count_fields(wine) ==
    Cardinality({f \in {"producer", "country", "region", "grape_variety",
                        "vintage", "price", "alcohol_content", "description"} :
                    wine[f] # <<>>})

\* A choice whose completeness test is count_fields(wine2) >= count_fields(wine1).
PrimaryChoiceSecondOnTie(jp_score1, jp_score2, fields1, fields2) ==
    IF jp_score1 > 0 /\ jp_score2 = 0 THEN TRUE
    ELSE IF jp_score2 > 0 /\ jp_score1 = 0 THEN FALSE
    ELSE IF jp_score1 # jp_score2 THEN jp_score1 > jp_score2
    ELSE ~(fields2 >= fields1)

\* Lines 655-669: TRUE when wine1 is the primary record.
PrimaryChoice(jp_score1, jp_score2, fields1, fields2) ==
    IF jp_score1 > 0 /\ jp_score2 = 0 THEN TRUE
    ELSE IF jp_score2 > 0 /\ jp_score1 = 0 THEN FALSE
    ELSE IF jp_score1 # jp_score2 THEN jp_score1 > jp_score2
    ELSE ~(fields2 > fields1)

PrimaryIsFirst(wine1, wine2) ==
    PrimaryChoice(get_japanese_content_score(wine1), get_japanese_content_score(wine2),
                  count_fields(wine1), count_fields(wine2))

\* A choice that keeps the primary's value whenever both are present.
PreferPrimary(primary_val, secondary_val, primary_has_jp, secondary_has_jp) ==
    primary_val

\* Lines 696-711: both values are present.
PreferJapanese(primary_val, secondary_val, primary_has_jp, secondary_has_jp) ==
    IF secondary_has_jp /\ ~primary_has_jp THEN secondary_val
    ELSE IF primary_has_jp /\ ~secondary_has_jp THEN primary_val
    ELSE IF secondary_has_jp /\ primary_has_jp
    THEN IF Len(secondary_val) > Len(primary_val)
         THEN secondary_val ELSE primary_val
    ELSE primary_val

prefer_japanese_or_fill(primary_val, secondary_val) ==
    IF primary_val = <<>> /\ secondary_val # <<>> THEN secondary_val
    ELSE IF secondary_val = <<>> /\ primary_val # <<>> THEN primary_val
    ELSE IF primary_val # <<>> /\ secondary_val # <<>>
    THEN PreferJapanese(primary_val, secondary_val, contains_japanese(primary_val),
                        contains_japanese(secondary_val))
    ELSE primary_val

\* Lines 719-724.
FillIfMissing(merged_val, secondary_val) ==
    IF merged_val = <<>> /\ secondary_val # <<>> THEN secondary_val ELSE merged_val

\* sep.join(parts)
RECURSIVE Join(_, _)
Join(parts, sep) ==
    IF parts = <<>> THEN <<>>
    ELSE IF Len(parts) = 1 THEN parts[1]
    ELSE parts[1] \o sep \o Join(Tail(parts), sep)

\* Lines 726-732: " | ".join of the stripped, distinct descriptions.
DistinctParts(d1, d2) ==
    (IF d1 # <<>> THEN <<d1>> ELSE <<>>)
    \o (IF d2 # <<>> /\ d2 # d1 THEN <<d2>> ELSE <<>>)

\* A merge that joins both stripped descriptions, equal or not.
MergeDescriptionsRepeated(primary, secondary) ==
    Join(SelectSeq(<<Strip(primary.description), Strip(secondary.description)>>,
                   LAMBDA d : d # <<>>),
         <<32, 124, 32>>)

\* A merge that joins the descriptions as they are, without str.strip.
MergeDescriptionsUnstripped(primary, secondary) ==
    Join(DistinctParts(primary.description, secondary.description), <<32, 124, 32>>)

MergeDescriptions(primary, secondary) ==
    Join(DistinctParts(Strip(primary.description), Strip(secondary.description)),
         <<32, 124, 32>>)

\* A merge that keeps the source_file of the primary record only.
SourcesOfPrimary(wine1, wine2) ==
    IF PrimaryIsFirst(wine1, wine2) THEN wine1.source_file ELSE wine2.source_file

\* Lines 734-740: ", ".join of the two source_file strings; the second is
\* left out when it equals the first as a whole string.
CombineSources(wine1, wine2) ==
    Join(DistinctParts(wine1.source_file, wine2.source_file), <<44, 32>>)

\* The number of wine_terms that occur in name.lower().
TermCount(name) ==
    Cardinality({k \in 1..Len(wine_terms) : Contains(Lower(name), wine_terms[k])})

\* A merge that keeps the longer name, Japanese or not.
ChooseLongerName(wine1, wine2, primary) ==
    IF Len(wine2.name) > Len(wine1.name) THEN wine2.name ELSE wine1.name

\* A merge that keeps the name of its first argument.
ChooseFirstName(wine1, wine2, primary) == wine1.name

\* A name choice whose last test is wine2_terms >= wine1_terms.
NameChoiceSecondOnTie(wine1, wine2, primary, wine1_has_japanese, wine2_has_japanese) ==
    IF wine1_has_japanese /\ ~wine2_has_japanese THEN wine1.name
    ELSE IF wine2_has_japanese /\ ~wine1_has_japanese THEN wine2.name
    ELSE IF wine1_has_japanese /\ wine2_has_japanese
    THEN IF Len(wine1.name) > Len(wine2.name) THEN wine1.name
         ELSE IF Len(wine2.name) > Len(wine1.name) THEN wine2.name
         ELSE primary.name
    ELSE IF 10 * Len(wine2.name) > 12 * Len(wine1.name) THEN wine2.name
    ELSE IF 10 * Len(wine1.name) > 12 * Len(wine2.name) THEN wine1.name
    ELSE IF TermCount(wine2.name) >= TermCount(wine1.name) THEN wine2.name
    ELSE wine1.name

\* Lines 751-785: the name of the merged record.
NameChoice(wine1, wine2, primary, wine1_has_japanese, wine2_has_japanese) ==
    IF wine1_has_japanese /\ ~wine2_has_japanese THEN wine1.name
    ELSE IF wine2_has_japanese /\ ~wine1_has_japanese THEN wine2.name
    ELSE IF wine1_has_japanese /\ wine2_has_japanese
    THEN IF Len(wine1.name) > Len(wine2.name) THEN wine1.name
         ELSE IF Len(wine2.name) > Len(wine1.name) THEN wine2.name
         ELSE primary.name
    \* len(b) > len(a) * 1.2, in tenths
    ELSE IF 10 * Len(wine2.name) > 12 * Len(wine1.name) THEN wine2.name
    ELSE IF 10 * Len(wine1.name) > 12 * Len(wine2.name) THEN wine1.name
    ELSE IF TermCount(wine2.name) > TermCount(wine1.name) THEN wine2.name
    ELSE wine1.name

ChooseName(wine1, wine2, primary) ==
    NameChoice(wine1, wine2, primary, contains_japanese(wine1.name),
               contains_japanese(wine2.name))

\* Lines 638-645 and 743-744: the entry appended to _debug_merges.  It is
\* built before the name is chosen, so final_name is the primary's name;
\* primary == wine1 compares the records by value.
DebugEntry(wine1, wine2, primary) ==
    [wine1_name |-> wine1.name,
     wine2_name |-> wine2.name,
     wine1_jp_score |-> get_japanese_content_score(wine1),
     wine2_jp_score |-> get_japanese_content_score(wine2),
     wine1_has_jp_name |-> contains_japanese(wine1.name),
     wine2_has_jp_name |-> contains_japanese(wine2.name),
     primary_chosen |-> IF primary = wine1 THEN "wine1" ELSE "wine2",
     final_name |-> primary.name]

MergeDebug(wine1, wine2) ==
    IF PrimaryIsFirst(wine1, wine2) THEN DebugEntry(wine1, wine2, wine1)
    ELSE DebugEntry(wine1, wine2, wine2)

\* Lines 671-740 and 751-787, given the primary and the secondary record.
MergeAs(wine1, wine2, primary, secondary) ==
    [name |-> ChooseName(wine1, wine2, primary),
     producer |-> prefer_japanese_or_fill(primary.producer, secondary.producer),
     country |-> prefer_japanese_or_fill(primary.country, secondary.country),
     region |-> prefer_japanese_or_fill(primary.region, secondary.region),
     grape_variety |->
         prefer_japanese_or_fill(primary.grape_variety, secondary.grape_variety),
     vintage |-> FillIfMissing(primary.vintage, secondary.vintage),
     price |-> FillIfMissing(primary.price, secondary.price),
     alcohol_content |->
         FillIfMissing(primary.alcohol_content, secondary.alcohol_content),
     description |-> MergeDescriptions(primary, secondary),
     source_file |-> CombineSources(wine1, wine2)]

\* The record merge_wine_info returns.
merge_wine_info(wine1, wine2) ==
    IF PrimaryIsFirst(wine1, wine2) THEN MergeAs(wine1, wine2, wine1, wine2)
    ELSE MergeAs(wine1, wine2, wine2, wine1)


(***************************************************************************)
(* The records and inputs of the model.                                    *)
(***************************************************************************)
MaxWines == 3        \* longest list handed to deduplicate_wines
MaxConcWines == 2    \* longest list of two interleaved calls
MaxDirect == 1       \* direct merge_wine_info calls (src/single_wine.py)

SrcA == <<97>>   \* "a"
SrcB == <<98>>   \* "b"

\* "Petit Chablis", France, from a
WineA == [Wine(<<80, 101, 116, 105, 116, 32, 67, 104, 97, 98, 108, 105, 115>>, SrcA)
             EXCEPT !.country = <<70, 114, 97, 110, 99, 101>>]
\* "Chablis Chardonnay", grape Chardonnay, description "dry", from b
WineB == [Wine(<<67, 104, 97, 98, 108, 105, 115, 32, 67, 104, 97, 114, 100, 111, 110, 110, 97, 121>>, SrcB)
             EXCEPT !.grape_variety = <<67, 104, 97, 114, 100, 111, 110, 110, 97, 121>>,
                    !.description = <<100, 114, 121>>]
\* katakana "Chardonnay", country in katakana (France), from a
WineJ == [Wine(<<12471, 12515, 12523, 12489, 12493>>, SrcA)
             EXCEPT !.country = <<12501, 12521, 12531, 12473>>]
\* "Rioja", Spain, from b
WineD == [Wine(<<82, 105, 111, 106, 97>>, SrcB)
             EXCEPT !.country = <<83, 112, 97, 105, 110>>]

\* katakana "Bonitura" and "NV", country in katakana (Portugal), from a
WineBonitura == [Wine(<<12508, 12491, 12488, 12453, 12521, 32, 78, 86>>, SrcA)
                    EXCEPT !.country = <<12509, 12523, 12488, 12460, 12523>>]
\* "CASA DE FONTE PEQUENA BONITURA NV", from b
WineCasa == Wine(<<67, 65, 83, 65, 32, 68, 69, 32, 70, 79, 78, 84, 69, 32, 80, 69, 81, 85, 69, 78, 65, 32,
                   66, 79, 78, 73, 84, 85, 82, 65, 32, 78, 86>>, SrcB)

Wines == {WineA, WineB, WineJ, WineD}

\* "Rioja" of the producer "Domaine Roy", from a, and "Petit Chablis" of the
\* producer "Roy et Fils", from b
WineRoyRioja == [Wine(WineD.name, SrcA) EXCEPT !.producer = <<68, 111, 109, 97, 105, 110, 101, 32, 82, 111, 121>>]
WineRoyChablis == [Wine(WineA.name, SrcB) EXCEPT !.producer = <<82, 111, 121, 32, 101, 116, 32, 70, 105, 108, 115>>]

\* The two records of one wine, listed in Japanese and in English, and two
\* different wines of one producer.
ScenarioWines == {WineBonitura, WineCasa, WineRoyRioja, WineRoyChablis}

\* similarity_threshold, in hundredths: 0.5, 0.7 and 1.01.
Thresholds == {50, 70, 101}

SeqsUpTo(S, n) == UNION {[1..k -> S] : k \in 0..n}

\* The arguments of one deduplicate_wines call.
Inputs(S, n) == [wines : SeqsUpTo(S, n), threshold : Thresholds, debug : BOOLEAN]

(***************************************************************************)
(* State.  Python indices are 0-based; the model counts from 1.            *)
(***************************************************************************)
VARIABLES
    args,              \* per caller: wines, similarity_threshold, debug
    frame,             \* per caller: the locals of its deduplicate_wines call
    has_debug_merges,  \* hasattr(merge_wine_info, '_debug_merges')
    debug_merges,      \* merge_wine_info._debug_merges
    has_debug_info,    \* hasattr(deduplicate_wines, '_debug_info')
    debug_info,        \* deduplicate_wines._debug_info
    shown,             \* per caller: what the debug panel displayed
    hist,              \* per caller: the comparisons, merges and clusters made
    direct,            \* direct merge_wine_info calls made so far
    fn                 \* the pure function under study, its arguments and results

vars == <<args, frame, has_debug_merges, debug_merges, has_debug_info,
          debug_info, shown, hist, direct, fn>>

NoWine == Wine(<<>>, <<>>)

IdleFrame ==
    [pc |-> "idle", i |-> 0, j |-> 0, processed_indices |-> {},
     similar_wines |-> <<>>, similar_indices |-> {}, similarities_found |-> <<>>,
     deduplicated |-> <<>>, merge_info |-> <<>>, merged_wine |-> NoWine,
     k |-> 0, result |-> <<>>]

\* objects: the WineInfo objects of the call, those of the input list first,
\* then the ones merge_wine_info built; acc: the object merged_wine refers to.
NoHist == [compared |-> <<>>, logged |-> <<>>, merges |-> <<>>,
           order |-> <<>>, clusters |-> <<>>, objects |-> <<>>, acc |-> 0]

NoDebugInfo == [similarities |-> <<>>, merges |-> <<>>]

NoFn == [pc |-> "none", a |-> <<>>, b |-> <<>>, r1 |-> <<>>, r2 |-> <<>>]

\* The module as imported: no function attribute is set yet.
InitShared ==
    /\ has_debug_merges = FALSE
    /\ debug_merges = <<>>
    /\ has_debug_info = FALSE
    /\ debug_info = NoDebugInfo
    /\ direct = 0

InitCalls(C, S, n) ==
    /\ args \in [C -> Inputs(S, n)]
    /\ frame = [c \in C |-> IdleFrame]
    /\ shown = [c \in C |-> NoDebugInfo]
    /\ hist = [c \in C |-> NoHist]

\* One session, one deduplicate_wines call.
Callers == {1}

Init ==
    /\ InitShared
    /\ InitCalls(Callers, Wines, MaxWines)
    /\ fn = NoFn

(***************************************************************************)
(* deduplicate_wines, statement by statement                               *)
(***************************************************************************)
\* calculate_wine_similarity on the records of the model, computed once.
SimilarityTable ==
    [a \in Wines \cup ScenarioWines, b \in Wines \cup ScenarioWines |->
        calculate_wine_similarity(a, b)]

\* Line 816.
Similarity(wine1, wine2) == SimilarityTable[wine1, wine2]

\* A pass that merges only above the threshold: similarity > similarity_threshold.
JoinsStrictly(similarity, similarity_threshold) ==
    RatLT(Rat(similarity_threshold, 100), similarity)

\* A pass whose threshold is capped at the highest score, 1.0.
JoinsCapped(similarity, similarity_threshold) ==
    RatLE(RatMin(One, Rat(similarity_threshold, 100)), similarity)

\* Line 826: similarity >= similarity_threshold.
Joins(similarity, similarity_threshold) ==
    RatLE(Rat(similarity_threshold, 100), similarity)

\* Line 818: similarity > 0.3.
Logged(similarity) == RatLT(Rat(3, 10), similarity)

\* A pass that compares the later record with the record that joined last.
NucleusLastJoined(c) ==
    IF frame[c].pc = "inner" /\ Len(frame[c].similar_wines) > 1
    THEN frame[c].similar_wines[Len(frame[c].similar_wines)]
    ELSE args[c].wines[frame[c].i]

\* Line 803: wine1, the record every later record is compared with.
Nucleus(c) == args[c].wines[frame[c].i]

\* A call that leaves the trace of earlier calls in place.
BeginKeepsTrace(c) ==
    /\ frame[c].pc = "idle"
    /\ IF args[c].wines = <<>>
       THEN /\ frame' = [frame EXCEPT ![c].pc = "returned", ![c].result = args[c].wines]
            /\ UNCHANGED hist
       ELSE /\ frame' = [frame EXCEPT ![c].pc = "outer", ![c].i = 1]
            /\ hist' = [hist EXCEPT ![c].objects = args[c].wines]
    /\ UNCHANGED <<args, has_debug_merges, debug_merges, has_debug_info, debug_info,
                   shown, direct, fn>>

\* Lines 792-801.
Begin(c) ==
    /\ frame[c].pc = "idle"
    /\ IF args[c].wines = <<>>
       THEN /\ frame' = [frame EXCEPT ![c].pc = "returned", ![c].result = args[c].wines]
            /\ UNCHANGED <<debug_merges, hist>>
       ELSE /\ frame' = [frame EXCEPT ![c].pc = "outer", ![c].i = 1]
            /\ debug_merges' = IF has_debug_merges THEN <<>> ELSE debug_merges
            /\ hist' = [hist EXCEPT ![c].objects = args[c].wines]
    /\ UNCHANGED <<args, has_debug_merges, has_debug_info, debug_info,
                   shown, direct, fn>>

\* Lines 803-810: the next i; a consumed record is skipped.
NextNucleus(c) ==
    LET f == frame[c]
    IN  /\ f.pc = "outer"
        /\ IF f.i > Len(args[c].wines)
           THEN /\ frame' = [frame EXCEPT ![c].pc = "store"]
                /\ UNCHANGED hist
           ELSE IF f.i \in f.processed_indices
           THEN /\ frame' = [frame EXCEPT ![c].i = f.i + 1]
                /\ UNCHANGED hist
           ELSE /\ frame' = [frame EXCEPT ![c].pc = "inner",
                                          ![c].similar_wines = <<Nucleus(c)>>,
                                          ![c].similar_indices = {f.i},
                                          ![c].similarities_found = <<>>,
                                          ![c].j = f.i + 1]
                /\ hist' = [hist EXCEPT ![c].order = <<f.i>>, ![c].acc = f.i]
        /\ UNCHANGED <<args, has_debug_merges, debug_merges, has_debug_info,
                       debug_info, shown, direct, fn>>

\* Lines 819-824: one entry of similarities_found.
SimilarityEntry(wine1, wine2, similarity, similarity_threshold) ==
    [wine1 |-> wine1.name, wine2 |-> wine2.name, similarity |-> similarity,
     merged |-> Joins(similarity, similarity_threshold)]

\* Lines 816-828: wine2 has been scored against the nucleus.
Scored(c, f, wine2, similarity, entry) ==
    /\ frame' =
         [frame EXCEPT
            ![c].j = f.j + 1,
            ![c].similarities_found =
                IF args[c].debug /\ Logged(similarity)
                THEN Append(f.similarities_found, entry)
                ELSE f.similarities_found,
            ![c].similar_wines =
                IF Joins(similarity, args[c].threshold)
                THEN Append(f.similar_wines, wine2)
                ELSE f.similar_wines,
            ![c].similar_indices =
                IF Joins(similarity, args[c].threshold)
                THEN f.similar_indices \cup {f.j}
                ELSE f.similar_indices]
    /\ hist' =
         [hist EXCEPT
            ![c].compared =
                Append(@, [i |-> f.i, j |-> f.j, wine1 |-> Nucleus(c),
                           wine2 |-> wine2, similarity |-> similarity]),
            ![c].logged = IF Logged(similarity) THEN Append(@, entry) ELSE @,
            ![c].order =
                IF Joins(similarity, args[c].threshold) THEN Append(@, f.j) ELSE @]

ScoredAs(c, wine2, similarity) ==
    Scored(c, frame[c], wine2, similarity,
           SimilarityEntry(Nucleus(c), wine2, similarity, args[c].threshold))

\* Lines 812-828: the next j; a consumed record is skipped.
Compare(c) ==
    LET f == frame[c]
    IN  /\ f.pc = "inner"
        /\ IF f.j > Len(args[c].wines)
           THEN /\ frame' = [frame EXCEPT ![c].pc = "fold",
                                          ![c].merged_wine = f.similar_wines[1],
                                          ![c].k = 2]
                /\ UNCHANGED hist
           ELSE IF f.j \in f.processed_indices
           THEN /\ frame' = [frame EXCEPT ![c].j = f.j + 1]
                /\ UNCHANGED hist
           ELSE ScoredAs(c, args[c].wines[f.j],
                         Similarity(Nucleus(c), args[c].wines[f.j]))
        /\ UNCHANGED <<args, has_debug_merges, debug_merges, has_debug_info,
                       debug_info, shown, direct, fn>>

\* Lines 746-749: merge_wine_info appends its entry to the function attribute.
AppendDebugMerge(entry) ==
    /\ has_debug_merges' = TRUE
    /\ debug_merges' = Append(debug_merges, entry)

\* A fold that hands the next record first: merge_wine_info(wine, merged_wine).
MergedSwapped(c, f, wine1, wine2, entry, merged) ==
    /\ frame' = [frame EXCEPT ![c].merged_wine = merge_wine_info(wine2, wine1),
                              ![c].k = f.k + 1]
    /\ AppendDebugMerge(MergeDebug(wine2, wine1))
    /\ hist' = [hist EXCEPT
                   ![c].merges =
                       Append(@, [a |-> wine2, b |-> wine1,
                                  primary_first |-> PrimaryIsFirst(wine2, wine1),
                                  entry |-> MergeDebug(wine2, wine1),
                                  merged |-> merge_wine_info(wine2, wine1)]),
                   ![c].objects = Append(@, merge_wine_info(wine2, wine1)),
                   ![c].acc = Len(hist[c].objects) + 1]

\* A fold whose merge writes its result into the running record instead of
\* building a record.
MergedInPlace(c, f, wine1, wine2, entry, merged) ==
    /\ frame' = [frame EXCEPT ![c].merged_wine = merged, ![c].k = f.k + 1]
    /\ AppendDebugMerge(entry)
    /\ hist' = [hist EXCEPT
                   ![c].merges =
                       Append(@, [a |-> wine1, b |-> wine2,
                                  primary_first |-> PrimaryIsFirst(wine1, wine2),
                                  entry |-> entry, merged |-> merged]),
                   ![c].objects = [@ EXCEPT ![hist[c].acc] = merged]]

\* Lines 832-833: one merge_wine_info call of the fold; the record it returns
\* is a new object (line 672), and merged_wine refers to it.
Merged(c, f, wine1, wine2, entry, merged) ==
    /\ frame' = [frame EXCEPT ![c].merged_wine = merged, ![c].k = f.k + 1]
    /\ AppendDebugMerge(entry)
    /\ hist' = [hist EXCEPT
                   ![c].merges =
                       Append(@, [a |-> wine1, b |-> wine2,
                                  primary_first |-> PrimaryIsFirst(wine1, wine2),
                                  entry |-> entry, merged |-> merged]),
                   ![c].objects = Append(@, merged),
                   ![c].acc = Len(hist[c].objects) + 1]

MergeNext(c) ==
    LET f == frame[c]
    IN  /\ f.pc = "fold"
        /\ f.k <= Len(f.similar_wines)
        /\ Merged(c, f, f.merged_wine, f.similar_wines[f.k],
                  MergeDebug(f.merged_wine, f.similar_wines[f.k]),
                  merge_wine_info(f.merged_wine, f.similar_wines[f.k]))
        /\ UNCHANGED <<args, has_debug_info, debug_info, shown, direct, fn>>

\* Lines 835-840: a cluster of several records is reported.
MergeInfo(f) ==
    IF Len(f.similar_wines) > 1
    THEN Append(f.merge_info,
                [final_name |-> f.merged_wine.name,
                 merged_count |-> Len(f.similar_wines),
                 original_names |->
                     [n \in 1..Len(f.similar_wines) |-> f.similar_wines[n].name]])
    ELSE f.merge_info

\* A pass that emits the records of the cluster along with their merge.
EmittedWithMembers(f) == Append(f.deduplicated \o f.similar_wines, f.merged_wine)

\* A pass that puts the newest cluster first: deduplicated.insert(0, merged_wine).
EmittedFirst(f) == <<f.merged_wine>> \o f.deduplicated

\* Line 842: deduplicated.append(merged_wine).
Emitted(f) == Append(f.deduplicated, f.merged_wine)

\* A pass that marks the nucleus only: processed_indices.add(i).
ConsumedNucleus(f) == f.processed_indices \cup {f.i}

\* Line 843: processed_indices.update(similar_indices).
Consumed(f) == f.processed_indices \cup f.similar_indices

\* Lines 835-843: the cluster is closed.
Emit(c) ==
    LET f == frame[c]
    IN  /\ f.pc = "fold"
        /\ f.k > Len(f.similar_wines)
        /\ frame' = [frame EXCEPT ![c].pc = "outer",
                                  ![c].i = f.i + 1,
                                  ![c].merge_info = MergeInfo(f),
                                  ![c].deduplicated = Emitted(f),
                                  ![c].processed_indices = Consumed(f)]
        /\ hist' = [hist EXCEPT ![c].clusters = Append(@, hist[c].order)]
        /\ UNCHANGED <<args, has_debug_merges, debug_merges, has_debug_info,
                       debug_info, shown, direct, fn>>

\* Lines 845-851.
Store(c) ==
    LET f == frame[c]
    IN  /\ f.pc = "store"
        /\ has_debug_info' = TRUE
        /\ debug_info' = [similarities |-> f.similarities_found,
                          merges |-> f.merge_info]
        /\ frame' = [frame EXCEPT ![c].pc = "returned", ![c].result = f.deduplicated]
        /\ UNCHANGED <<args, has_debug_merges, debug_merges, shown, hist,
                       direct, fn>>

\* src/pages/pdf_import.py, lines 94 and 127-166: the page is drawn again
\* after the call; the debug panel reads the two function attributes.
Panel(c) ==
    IF args[c].wines # <<>> /\ args[c].debug
    THEN [similarities |->
              IF has_debug_info THEN debug_info.similarities ELSE <<>>,
          merges |-> IF has_debug_merges THEN debug_merges ELSE <<>>]
    ELSE NoDebugInfo

ShowDebug(c) ==
    /\ frame[c].pc = "returned"
    /\ frame' = [frame EXCEPT ![c].pc = "shown"]
    /\ shown' = [shown EXCEPT ![c] = Panel(c)]
    /\ UNCHANGED <<args, has_debug_merges, debug_merges, has_debug_info,
                   debug_info, hist, direct, fn>>

\* src/single_wine.py, line 250: a merge requested from the comparison page.
DirectMerge(wine1, wine2) ==
    /\ direct < MaxDirect
    /\ direct' = direct + 1
    /\ AppendDebugMerge(MergeDebug(wine1, wine2))
    /\ UNCHANGED <<args, frame, has_debug_info, debug_info, shown, hist, fn>>

\* The same, in a session that runs one script at a time: no call of the
\* session is between its first statement and the drawing of its panel.
SessionMerge(wine1, wine2) ==
    /\ \A c \in DOMAIN frame : frame[c].pc \in {"idle", "shown"}
    /\ DirectMerge(wine1, wine2)

\* The records the comparison page merges.
DirectWines == {WineA, WineJ}

Step(c) ==
    \/ Begin(c)
    \/ NextNucleus(c)
    \/ Compare(c)
    \/ MergeNext(c)
    \/ Emit(c)
    \/ Store(c)
    \/ ShowDebug(c)

Next ==
    \/ \E c \in Callers : Step(c)
    \/ \E a \in DirectWines, b \in DirectWines : SessionMerge(a, b)

Spec == Init /\ [][Next]_vars

(***************************************************************************)
(* Two sessions of the same process call deduplicate_wines; their          *)
(* statements interleave, and the comparison page of a third merges.       *)
(***************************************************************************)
ConcCallers == {1, 2}

ConcWines == {WineB, WineJ}

ConcInputs ==
    [wines : SeqsUpTo(ConcWines, MaxConcWines), threshold : {50}, debug : BOOLEAN]

InitConc ==
    /\ InitShared
    /\ args \in [ConcCallers -> ConcInputs]
    /\ frame = [c \in ConcCallers |-> IdleFrame]
    /\ shown = [c \in ConcCallers |-> NoDebugInfo]
    /\ hist = [c \in ConcCallers |-> NoHist]
    /\ fn = NoFn

NextConc ==
    \/ \E c \in ConcCallers : Step(c)
    \/ DirectMerge(WineA, WineJ)

SpecConc == InitConc /\ [][NextConc]_vars

(***************************************************************************)
(* Two calls that do not interleave: a script runs from its first          *)
(* statement to the drawing of its panel before the next one starts.       *)
(***************************************************************************)
\* The step of c, taken while no other call is under way.
SequentialStep(c) ==
    /\ \A other \in DOMAIN frame \ {c} : frame[other].pc \in {"idle", "shown"}
    /\ Step(c)

NextSequential ==
    \/ \E c \in ConcCallers : SequentialStep(c)
    \/ \E a \in DirectWines, b \in DirectWines : SessionMerge(a, b)

SpecSequential == InitConc /\ [][NextSequential]_vars

(***************************************************************************)
(* One session deduplicates the listings of the scenarios, at 0.2, at 0.7   *)
(* and above every score.                                                  *)
(***************************************************************************)
MaxScenarioWines == 2    \* longest list of the scenario

ScenarioInputs ==
    [wines : SeqsUpTo(ScenarioWines, MaxScenarioWines), threshold : {20, 70, 101},
     debug : BOOLEAN]

InitScenario ==
    /\ InitShared
    /\ args \in [Callers -> ScenarioInputs]
    /\ frame = [c \in Callers |-> IdleFrame]
    /\ shown = [c \in Callers |-> NoDebugInfo]
    /\ hist = [c \in Callers |-> NoHist]
    /\ fn = NoFn

SpecScenario == InitScenario /\ [][Next]_vars

(***************************************************************************)
(* The pure functions, applied to arguments drawn from small sets: fn      *)
(* holds the arguments and the results.                                    *)
(***************************************************************************)
MaxWords == 3        \* most words of a name handed to normalize_wine_name

\* No deduplicate_wines call is made.
InitPure ==
    /\ InitShared
    /\ args = <<>>
    /\ frame = <<>>
    /\ shown = <<>>
    /\ hist = <<>>

Unshared ==
    UNCHANGED <<args, frame, has_debug_merges, debug_merges, has_debug_info,
                debug_info, shown, hist, direct>>

\* "Foo", "brut", "de", "2020", "NV", katakana "wine", the ideograph "white"
NormWords == {<<70, 111, 111>>, <<98, 114, 117, 116>>, <<100, 101>>, <<50, 48, 50, 48>>, <<78, 86>>,
              <<12527, 12452, 12531>>, <<30333>>}

\* The words of a name, a space between two.
NormInputs == {Join(ws, <<SP>>) : ws \in SeqsUpTo(NormWords, MaxWords)}

InitNorm ==
    /\ InitPure
    /\ fn \in [pc : {"ready"}, a : NormInputs, b : {<<>>}, r1 : {<<>>}, r2 : {<<>>}]

\* normalize_wine_name(s)
NormalizeOnce ==
    /\ fn.pc = "ready"
    /\ fn' = [fn EXCEPT !.pc = "once", !.r1 = normalize_wine_name(fn.a)]
    /\ Unshared

\* normalize_wine_name of the result
NormalizeAgain ==
    /\ fn.pc = "once"
    /\ fn' = [fn EXCEPT !.pc = "twice", !.r2 = normalize_wine_name(fn.r1)]
    /\ Unshared

NextNorm == NormalizeOnce \/ NormalizeAgain

SpecNorm == InitNorm /\ [][NextNorm]_vars

\* Two names of 11 characters that share the words "VS" and "St", and two
\* records of one producer.
WineV == Wine(<<67, 104, 32, 86, 83, 32, 83, 116, 32, 78, 111>>, SrcA)
WineT == Wine(<<84, 97, 119, 110, 121, 32, 83, 116, 32, 86, 83>>, SrcB)
WineP == [Wine(<<67, 104, 97, 98, 108, 105, 115>>, SrcA)
             EXCEPT !.producer = <<68, 111, 109, 97, 105, 110, 101, 32, 82, 111, 121>>]
WineQ == [Wine(<<68, 111, 109, 97, 105, 110, 101, 32, 82, 111, 121, 32, 67, 104, 97, 98, 108, 105, 115, 32, 50, 48, 50, 48>>, SrcB)
             EXCEPT !.producer = <<68, 111, 109, 97, 105, 110, 101, 32, 82, 111, 121>>,
                    !.region = <<66, 111, 117, 114, 103, 111, 103, 110, 101>>]

\* "NV" and "vin": no word of the name is longer than 2 characters, or the
\* only word is a stop word.
WineNV == Wine(<<78, 86>>, SrcA)
WineVin == Wine(<<118, 105, 110>>, SrcB)

\* katakana "Sauvignon", and "Sauvignon"
WineSauvignonJp == Wine(wine_terms_jp[7], SrcA)
WineSauvignon == Wine(<<83, 97, 117, 118, 105, 103, 110, 111, 110>>, SrcB)

\* "Roy" and "Royale": the one word of the first occurs inside the one word
\* of the second.
WineRoy == Wine(<<82, 111, 121>>, SrcA)
WineRoyale == Wine(<<82, 111, 121, 97, 108, 101>>, SrcB)

SimWines ==
    Wines \cup {WineV, WineT, WineP, WineQ, WineNV, WineVin, WineBonitura, WineCasa,
                WineSauvignonJp, WineSauvignon, WineRoy, WineRoyale}

InitSim ==
    /\ InitPure
    /\ fn \in [pc : {"ready"}, a : SimWines, b : SimWines, r1 : {Zero}, r2 : {Zero}]

\* calculate_wine_similarity(a, b)
Forward ==
    /\ fn.pc = "ready"
    /\ fn' = [fn EXCEPT !.pc = "forward", !.r1 = calculate_wine_similarity(fn.a, fn.b)]
    /\ Unshared

\* calculate_wine_similarity(b, a)
Backward ==
    /\ fn.pc = "forward"
    /\ fn' = [fn EXCEPT !.pc = "both", !.r2 = calculate_wine_similarity(fn.b, fn.a)]
    /\ Unshared

NextSim == Forward \/ Backward

SpecSim == InitSim /\ [][NextSim]_vars

\* source_file: none, "a", "b", and the "a, b" of an earlier merge
SourceFiles == {<<>>, SrcA, SrcB, <<97, 44, 32, 98>>}

SourceWines == {[w EXCEPT !.source_file = s] : w \in {WineA, WineJ}, s \in SourceFiles}

\* "Roy Brut", "Roy Blanc", "Roy Vins", "Petit Chablis"; katakana "Chardonnay",
\* "Bonitura" and "Bonitura NV"
MergeNames ==
    {<<82, 111, 121, 32, 66, 114, 117, 116>>,
     <<82, 111, 121, 32, 66, 108, 97, 110, 99>>,
     <<82, 111, 121, 32, 86, 105, 110, 115>>,
     WineA.name,
     WineJ.name,
     <<12508, 12491, 12488, 12453, 12521>>,
     WineBonitura.name}

\* no optional field
NoFields ==
    [producer |-> <<>>,
     country |-> <<>>,
     region |-> <<>>,
     grape_variety |-> <<>>,
     vintage |-> <<>>,
     price |-> <<>>,
     alcohol_content |-> <<>>,
     description |-> <<>>]
\* every optional field, in Latin script; the description is " dry "
LatinFields ==
    [producer |-> <<68, 111, 109, 97, 105, 110, 101, 32, 82, 111, 121>>,
     country |-> <<70, 114, 97, 110, 99, 101>>,
     region |-> <<76, 111, 105, 114, 101>>,
     grape_variety |-> <<80, 105, 110, 111, 116>>,
     vintage |-> <<50, 48, 50, 48>>,
     price |-> <<49, 48>>,
     alcohol_content |-> <<49, 50>>,
     description |-> <<32, 100, 114, 121, 32>>]
\* every optional field; producer, country, region, grape and description in Japanese
JapaneseFields ==
    [producer |-> <<12525, 12527>>,
     country |-> <<12501, 12521, 12531, 12473>>,
     region |-> <<12525, 12527, 12540, 12523>>,
     grape_variety |-> <<12500, 12494>>,
     vintage |-> <<50, 48, 49, 57>>,
     price |-> <<50, 48>>,
     alcohol_content |-> <<49, 51>>,
     description |-> <<36763, 21475>>]
\* producer "Roy" only
LatinProducer ==
    [producer |-> <<82, 111, 121>>,
     country |-> <<>>,
     region |-> <<>>,
     grape_variety |-> <<>>,
     vintage |-> <<>>,
     price |-> <<>>,
     alcohol_content |-> <<>>,
     description |-> <<>>]
\* a longer producer in katakana, and country "France"
JapaneseProducer ==
    [producer |-> <<12489, 12513, 12540, 12492, 12539, 12525, 12527>>,
     country |-> <<70, 114, 97, 110, 99, 101>>,
     region |-> <<>>,
     grape_variety |-> <<>>,
     vintage |-> <<>>,
     price |-> <<>>,
     alcohol_content |-> <<>>,
     description |-> <<>>]

FieldProfiles == {NoFields, LatinFields, JapaneseFields, LatinProducer, JapaneseProducer}

\* WineInfo(name=n, source_file="b", **fields)
WithFields(n, fields) ==
    [name |-> n, producer |-> fields.producer, country |-> fields.country,
     region |-> fields.region, grape_variety |-> fields.grape_variety,
     vintage |-> fields.vintage, price |-> fields.price,
     alcohol_content |-> fields.alcohol_content,
     description |-> fields.description, source_file |-> SrcB]

FieldWines == {WithFields(n, fields) : n \in MergeNames, fields \in FieldProfiles}

MergeWines == SourceWines \cup FieldWines

InitMerge ==
    /\ InitPure
    /\ fn \in [pc : {"ready"}, a : MergeWines, b : MergeWines,
               r1 : {NoWine}, r2 : {<<>>}]

\* merge_wine_info(a, b), the appended debug entry included
MergeRecords ==
    /\ fn.pc = "ready"
    /\ fn' = [fn EXCEPT !.pc = "merged", !.r1 = merge_wine_info(fn.a, fn.b)]
    /\ AppendDebugMerge(MergeDebug(fn.a, fn.b))
    /\ UNCHANGED <<args, frame, has_debug_info, debug_info, shown, hist, direct>>

NextMerge == MergeRecords

SpecMerge == InitMerge /\ [][NextMerge]_vars

(***************************************************************************)
(* Properties.  A score is compared with a threshold in hundredths; the    *)
(* source tokens of a record are the parts of its source_file between      *)
(* ", ".                                                                   *)
(***************************************************************************)
AtLeast(similarity, threshold) == RatLE(Rat(threshold, 100), similarity)

Range(s) == {s[k] : k \in 1..Len(s)}

\* The call of c has returned.
Finished(c) == frame[c].pc \in {"returned", "shown"}

\* The score of the records at positions i and j of the input of c.
Sim(c, i, j) == SimilarityTable[args[c].wines[i], args[c].wines[j]]

\* The positions consumed by the clusters whose nucleus comes before i.
ConsumedBefore(c, i) ==
    UNION {Range(hist[c].clusters[n]) :
              n \in {m \in 1..Len(hist[c].clusters) : hist[c].clusters[m][1] < i}}

RECURSIVE SplitOn(_, _)
SplitOn(s, sep) ==
    IF ~Contains(s, sep) THEN <<s>>
    ELSE LET p == MinOf({q \in 1..Len(s) : StartsWithAt(s, q, sep)})
         IN  <<SubSeq(s, 1, p - 1)>> \o SplitOn(SubSeq(s, p + Len(sep), Len(s)), sep)

Tokens(source_file) ==
    IF source_file = <<>> THEN <<>> ELSE SplitOn(source_file, <<44, 32>>)

\* The elements of a sequence in the order of their first occurrence.
RECURSIVE FirstSeen(_)
FirstSeen(s) ==
    IF s = <<>> THEN <<>>
    ELSE LET front == FirstSeen(SubSeq(s, 1, Len(s) - 1))
         IN  IF s[Len(s)] \in Range(front) THEN front ELSE Append(front, s[Len(s)])

\* The source tokens of the records at the positions of a cluster, in order.
RECURSIVE ClusterTokens(_, _)
ClusterTokens(wines, cluster) ==
    IF cluster = <<>> THEN <<>>
    ELSE Tokens(wines[Head(cluster)].source_file) \o ClusterTokens(wines, Tail(cluster))

\* Every comparison made so far is between the original record at a
\* position i and the original record at a later position j, neither consumed
\* by an earlier cluster, and its score is calculate_wine_similarity of the two.
ComparedOriginals(c) ==
    \A n \in 1..Len(hist[c].compared) :
        LET e == hist[c].compared[n]
        IN  /\ e.i < e.j
            /\ e.j <= Len(args[c].wines)
            /\ e.wine1 = args[c].wines[e.i]
            /\ e.wine2 = args[c].wines[e.j]
            /\ e.similarity = Sim(c, e.i, e.j)
            /\ e.i \notin ConsumedBefore(c, e.i)
            /\ e.j \notin ConsumedBefore(c, e.i)

\* Once the call has returned: the nuclei are the positions no earlier cluster
\* consumed; every later position not consumed before was compared with the
\* nucleus, and joined its cluster iff the score reached the threshold.
GreedyClusters(c) ==
    /\ \A i \in 1..Len(args[c].wines) :
           i \notin ConsumedBefore(c, i)
               <=> \E n \in 1..Len(hist[c].clusters) : hist[c].clusters[n][1] = i
    /\ \A n \in 1..Len(hist[c].clusters) :
           LET i == hist[c].clusters[n][1]
               later == {j \in (i + 1)..Len(args[c].wines) : j \notin ConsumedBefore(c, i)}
           IN  /\ \A j \in later :
                      \E m \in 1..Len(hist[c].compared) :
                          hist[c].compared[m].i = i /\ hist[c].compared[m].j = j
               /\ Range(hist[c].clusters[n]) \ {i}
                      = {j \in later : AtLeast(Sim(c, i, j), args[c].threshold)}

\* C1: deduplicate_wines is one greedy pass from left to right: a record that
\* no earlier cluster consumed is a nucleus; every later record not yet
\* consumed is compared with the original nucleus, never with the running
\* merge, and joins the cluster iff its score is at least the threshold; a
\* consumed record is never a nucleus and is never compared again.
C1_GreedyPass ==
    \A c \in DOMAIN frame :
        /\ ComparedOriginals(c)
        /\ Finished(c) => GreedyClusters(c)

\* A returned call on three records: the second joined the first, the third
\* was compared with the first and became a nucleus of its own.
C1_Witness ==
    /\ Finished(1)
    /\ args[1].wines = <<WineA, WineB, WineJ>>
    /\ args[1].threshold = 50
    /\ hist[1].clusters = <<<<1, 2>>, <<3>>>>
    /\ Len(hist[1].compared) = 2

\* Three records A, B, C: A and B reach the threshold, B and C reach it, A
\* and C do not.
Chain(c) ==
    /\ Len(args[c].wines) = 3
    /\ AtLeast(Sim(c, 1, 2), args[c].threshold)
    /\ AtLeast(Sim(c, 2, 3), args[c].threshold)
    /\ ~AtLeast(Sim(c, 1, 3), args[c].threshold)

\* C2: for three records A, B, C in this order with similarity(A, B) and
\* similarity(B, C) at least the threshold and similarity(A, C) below it, the
\* call returns two records: merge(A, B), then C unchanged.
C2_NotTransitive ==
    \A c \in DOMAIN frame :
        Finished(c) /\ Chain(c)
            => frame[c].result =
                   <<merge_wine_info(args[c].wines[1], args[c].wines[2]),
                     args[c].wines[3]>>

\* A returned call on such a chain.
C2_Witness ==
    /\ Finished(1)
    /\ Chain(1)
    /\ Len(frame[1].result) = 2
    /\ frame[1].result[2] = WineJ

\* C3: calculate_wine_similarity(a, b) = calculate_wine_similarity(b, a) for
\* every pair of records, also when the two normalized names have the same
\* number of characters and different words.
C3_Symmetric == fn.pc = "both" => fn.r1 = fn.r2

\* C4: normalize_wine_name(normalize_wine_name(s)) = normalize_wine_name(s)
\* for every string s, on the Japanese and on the Latin path.
C4_Idempotent == fn.pc = "twice" => fn.r2 = fn.r1

\* C5: after the merges deduplicate_wines folds over a cluster, source_file
\* lists each distinct source token of the cluster's records once, in the
\* order in which the tokens are first seen.
C5_SourcesOnce ==
    \A c \in DOMAIN frame :
        Finished(c) /\ args[c].wines # <<>>
            => \A n \in 1..Len(frame[c].result) :
                   Tokens(frame[c].result[n].source_file)
                       = FirstSeen(ClusterTokens(args[c].wines, hist[c].clusters[n]))

\* C6: every source token of a.source_file or of b.source_file is a token of
\* merge_wine_info(a, b).source_file.
C6_SourcesKept ==
    fn.pc = "merged"
        => Range(Tokens(fn.a.source_file)) \cup Range(Tokens(fn.b.source_file))
               \subseteq Range(Tokens(fn.r1.source_file))

\* A merge of a record of two sources with a record of one of them.
C6_Witness ==
    /\ fn.pc = "merged"
    /\ Len(Tokens(fn.a.source_file)) = 2
    /\ fn.b.source_file = SrcB
    /\ SrcA \in Range(Tokens(fn.r1.source_file))
    /\ SrcB \in Range(Tokens(fn.r1.source_file))

\* C7: after a call with debug = true the exposed debug structure has one
\* entry (names, score, merged flag) for every compared pair that scored
\* above 0.3, whatever its nucleus, and the merged flag of an entry is
\* (score >= threshold).
C7_DebugComplete ==
    \A c \in DOMAIN frame :
        frame[c].pc = "returned" /\ args[c].debug
            => /\ (IF has_debug_info THEN debug_info.similarities ELSE <<>>)
                      = hist[c].logged
               /\ \A n \in 1..Len(hist[c].logged) :
                      hist[c].logged[n].merged
                          = AtLeast(hist[c].logged[n].similarity, args[c].threshold)

\* The debug entries of the merges the call of c made.
OwnMerges(c) == [n \in 1..Len(hist[c].merges) |-> hist[c].merges[n].entry]

\* C8: two calls that interleave or follow one another never see or change
\* each other's debug trace: the merge decisions shown for a call are those
\* of that call, and every comparison shown is one of its own.
C8_TraceIsolated ==
    \A c \in DOMAIN frame :
        frame[c].pc = "shown" /\ args[c].debug /\ args[c].wines # <<>>
            => /\ shown[c].merges = OwnMerges(c)
               /\ Range(shown[c].similarities) \subseteq Range(hist[c].logged)

\* C9: the list deduplicate_wines returns is never longer than its input,
\* and it is empty when the input is empty.
C9_NeverLonger ==
    \A c \in DOMAIN frame :
        Finished(c)
            => /\ Len(frame[c].result) <= Len(args[c].wines)
               /\ args[c].wines = <<>> => frame[c].result = <<>>

\* A call that returned one record for three.
C9_Witness ==
    /\ Finished(1)
    /\ Len(args[1].wines) = 3
    /\ Len(frame[1].result) = 1
    /\ Len(hist[1].merges) = 2

\* C10: with a threshold above every score (1.01) deduplicate_wines returns
\* its input records, unchanged and in the input order, and merges nothing.
C10_NoOpAboveMax ==
    \A c \in DOMAIN frame :
        Finished(c) /\ args[c].threshold > 100
            => /\ frame[c].result = args[c].wines
               /\ hist[c].merges = <<>>

\* A returned call at 1.01 that compared a record with an equal one, the
\* score being 1.
C10_Witness ==
    /\ Finished(1)
    /\ args[1].threshold = 101
    /\ \E n \in 1..Len(hist[1].compared) :
           /\ hist[1].compared[n].similarity = One
           /\ hist[1].compared[n].wine1 = hist[1].compared[n].wine2
    /\ Len(frame[1].result) = Len(args[1].wines)

\* merge(...merge(merge(acc, rest[1]), rest[2])..., rest[k])
RECURSIVE FoldLeft(_, _)
FoldLeft(acc, rest) ==
    IF rest = <<>> THEN acc
    ELSE FoldLeft(merge_wine_info(acc, Head(rest)), Tail(rest))

\* The record a cluster of input positions stands for: its first record,
\* merged with the others from left to right.
ClusterRecord(wines, cluster) ==
    FoldLeft(wines[cluster[1]],
             [n \in 1..(Len(cluster) - 1) |-> wines[cluster[n + 1]]])

\* The clusters of c whose nucleus is at or before the nucleus of cluster n.
Rank(c, n) ==
    Cardinality({m \in 1..Len(hist[c].clusters) :
                    hist[c].clusters[m][1] <= hist[c].clusters[n][1]})

\* C11: the returned list holds the records of the clusters in the order in
\* which their nuclei appear in the input: the cluster whose nucleus is the
\* r-th nucleus of the input has its record at position r.
C11_NucleusOrder ==
    \A c \in DOMAIN frame :
        Finished(c)
            => /\ Len(frame[c].result) = Len(hist[c].clusters)
               /\ \A n \in 1..Len(hist[c].clusters) :
                      frame[c].result[Rank(c, n)]
                          = ClusterRecord(args[c].wines, hist[c].clusters[n])

\* A returned call with two clusters, the first of two records, whose
\* records differ.
C11_Witness ==
    /\ Finished(1)
    /\ hist[1].clusters = <<<<1, 3>>, <<2>>>>
    /\ frame[1].result[1] # frame[1].result[2]
    /\ frame[1].result[2] = args[1].wines[2]

\* C12: every score calculate_wine_similarity returns is at least 0.0 and at
\* most 1.0, in either argument order.
C12_ScoreBounded ==
    /\ fn.pc \in {"forward", "both"} => RatLE(Zero, fn.r1) /\ RatLE(fn.r1, One)
    /\ fn.pc = "both" => RatLE(Zero, fn.r2) /\ RatLE(fn.r2, One)

\* Two records of one producer, the name of one contained in the name of
\* the other: several signals agree and the score is 0.9 in both orders.
C12_Witness ==
    /\ fn.pc = "both"
    /\ fn.a = WineP
    /\ fn.b = WineQ
    /\ fn.r1 = Rat(9, 10)
    /\ fn.r2 = Rat(9, 10)
    /\ ProducerEscalation(fn.a, fn.b) = Rat(7, 10)

\* C13: calculate_wine_similarity(a, a) = 1.0 for every record a with a
\* non-empty name, also when no word of the name is longer than 2
\* characters or every word is a stop word.
C13_SelfSimilarity ==
    fn.pc \in {"forward", "both"} /\ fn.a = fn.b /\ fn.a.name # <<>>
        => fn.r1 = One

\* C15: the record named "Bonitura NV" in katakana (country Portugal) and
\* the record "CASA DE FONTE PEQUENA BONITURA NV" score at least 0.9 in
\* either argument order, and deduplicate_wines at threshold 0.2 returns one
\* record for the two, named as the katakana record, whichever comes first.
C15_BonituraScenario ==
    /\ AtLeast(Similarity(WineBonitura, WineCasa), 90)
    /\ AtLeast(Similarity(WineCasa, WineBonitura), 90)
    /\ \A c \in DOMAIN frame :
           /\ Finished(c)
           /\ args[c].threshold = 20
           /\ args[c].wines \in {<<WineBonitura, WineCasa>>, <<WineCasa, WineBonitura>>}
           => /\ Len(frame[c].result) = 1
              /\ frame[c].result[1].name = WineBonitura.name

\* The call returned with the English record first in the input.
C15_Witness ==
    /\ Finished(1)
    /\ args[1].threshold = 20
    /\ args[1].wines = <<WineCasa, WineBonitura>>
    /\ Len(hist[1].merges) = 1
    /\ hist[1].merges[1].a = WineCasa
    /\ frame[1].result[1].country = WineBonitura.country

\* The merge_wine_info calls of a left fold: the running result first, the
\* next record second.
RECURSIVE FoldCalls(_, _)
FoldCalls(acc, rest) ==
    IF rest = <<>> THEN <<>>
    ELSE <<<<acc, Head(rest)>>>>
         \o FoldCalls(merge_wine_info(acc, Head(rest)), Tail(rest))

ClusterCalls(wines, cluster) ==
    FoldCalls(wines[cluster[1]],
              [n \in 1..(Len(cluster) - 1) |-> wines[cluster[n + 1]]])

RECURSIVE AllClusterCalls(_, _)
AllClusterCalls(wines, clusters) ==
    IF clusters = <<>> THEN <<>>
    ELSE ClusterCalls(wines, Head(clusters)) \o AllClusterCalls(wines, Tail(clusters))

\* C17: a cluster of one record yields that input record and no
\* merge_wine_info call; a cluster c0, c1, ..., ck, its positions increasing,
\* yields merge(...merge(merge(c0, c1), c2)..., ck), and the calls made are
\* those of this fold, the running result always the first argument.
C17_LeftFold ==
    \A c \in DOMAIN frame :
        Finished(c)
            => /\ Len(frame[c].result) = Len(hist[c].clusters)
               /\ \A n \in 1..Len(hist[c].clusters) :
                      LET cluster == hist[c].clusters[n]
                      IN  /\ \A k \in 1..(Len(cluster) - 1) : cluster[k] < cluster[k + 1]
                          /\ Len(cluster) = 1
                                 => frame[c].result[n] = args[c].wines[cluster[1]]
                          /\ frame[c].result[n] = ClusterRecord(args[c].wines, cluster)
               /\ [m \in 1..Len(hist[c].merges) |->
                      <<hist[c].merges[m].a, hist[c].merges[m].b>>]
                      = AllClusterCalls(args[c].wines, hist[c].clusters)

\* A returned call that folded a cluster of three different records: the
\* second merge took the result of the first as its first argument.
C17_Witness ==
    /\ Finished(1)
    /\ hist[1].clusters = <<<<1, 2, 3>>>>
    /\ args[1].wines[1] # args[1].wines[2]
    /\ args[1].wines[2] # args[1].wines[3]
    /\ Len(hist[1].merges) = 2
    /\ hist[1].merges[2].a = hist[1].merges[1].merged
    /\ hist[1].merges[2].a # args[1].wines[1]

\* The entry the last merge_wine_info call appended to _debug_merges, and the
\* name of the record it reports as primary.
LastMerge == debug_merges[Len(debug_merges)]

PrimaryName == IF LastMerge.primary_chosen = "wine1" THEN fn.a.name ELSE fn.b.name

\* s is more than 20% longer than t.
FifthLonger(s, t) == 10 * Len(s) > 12 * Len(t)

\* The name the rule gives for the raw records a and b.
RuledName(a, b, a_japanese, b_japanese, primary_name) ==
    IF a_japanese /\ ~b_japanese THEN a.name
    ELSE IF b_japanese /\ ~a_japanese THEN b.name
    ELSE IF a_japanese /\ b_japanese
    THEN IF Len(a.name) > Len(b.name) THEN a.name
         ELSE IF Len(b.name) > Len(a.name) THEN b.name
         ELSE primary_name
    ELSE IF FifthLonger(b.name, a.name) THEN b.name
    ELSE IF FifthLonger(a.name, b.name) THEN a.name
    ELSE IF TermCount(b.name) > TermCount(a.name) THEN b.name
    ELSE a.name

\* C14: the name of merge_wine_info(a, b) is decided on the raw a and b: the
\* one name that contains Japanese; of two Japanese names the longer, and
\* with equal lengths the primary's; of two names without Japanese the one
\* more than 20% longer, else the one matching more of the wine terms, and
\* on a tie the name of a.
C14_NameRule ==
    fn.pc = "merged"
        => fn.r1.name = RuledName(fn.a, fn.b, contains_japanese(fn.a.name),
                                  contains_japanese(fn.b.name), PrimaryName)

\* Two names without Japanese, of similar length and one wine term each: the
\* merge is named as a although b is the primary record.
C14_Witness ==
    /\ fn.pc = "merged"
    /\ ~contains_japanese(fn.a.name)
    /\ ~contains_japanese(fn.b.name)
    /\ fn.a.name # fn.b.name
    /\ ~FifthLonger(fn.a.name, fn.b.name)
    /\ ~FifthLonger(fn.b.name, fn.a.name)
    /\ TermCount(fn.a.name) = 1
    /\ TermCount(fn.b.name) = 1
    /\ LastMerge.primary_chosen = "wine2"
    /\ fn.r1.name = fn.a.name
    /\ fn.r1.producer = fn.b.producer

OptionalFields ==
    {"producer", "country", "region", "grape_variety", "vintage", "price",
     "alcohol_content", "description"}

\* One of a and b has no optional field, the other has every one, and the
\* names are the same.
EmptyAndPopulated(empty, populated) ==
    /\ empty.name = populated.name
    /\ \A f \in OptionalFields : empty[f] = <<>> /\ populated[f] # <<>>

\* The merge has the populated record's value in every optional field.
TakesFieldsOf(merged, populated) ==
    \A f \in OptionalFields : merged[f] = populated[f]

\* C16 as stated: merging a record without optional fields and a fully
\* populated record of the same name gives, in either argument order, the
\* populated record's producer, country, region, grape_variety, vintage,
\* price, alcohol_content and description.
C16_FillsEveryGap ==
    fn.pc = "merged"
        => /\ EmptyAndPopulated(fn.a, fn.b) => TakesFieldsOf(fn.r1, fn.b)
           /\ EmptyAndPopulated(fn.b, fn.a) => TakesFieldsOf(fn.r1, fn.a)

\* The same, the description compared after str.strip.
TakesStrippedFieldsOf(merged, populated) ==
    /\ \A f \in OptionalFields \ {"description"} : merged[f] = populated[f]
    /\ merged.description = Strip(populated.description)

\* C16, amended: the merge has the populated record's producer, country,
\* region, grape_variety, vintage, price and alcohol_content, and its
\* description without the surrounding whitespace.
C16_FillsEveryGapStripped ==
    fn.pc = "merged"
        => /\ EmptyAndPopulated(fn.a, fn.b) => TakesStrippedFieldsOf(fn.r1, fn.b)
           /\ EmptyAndPopulated(fn.b, fn.a) => TakesStrippedFieldsOf(fn.r1, fn.a)

\* The record without fields came first and the populated record's
\* description was " dry ".
C16_Witness ==
    /\ fn.pc = "merged"
    /\ EmptyAndPopulated(fn.a, fn.b)
    /\ fn.b.description = LatinFields.description
    /\ fn.r1.description = <<100, 114, 121>>
    /\ fn.r1.vintage = fn.b.vintage
    /\ LastMerge.primary_chosen = "wine2"

\* The records the last merge_wine_info call took as primary and secondary.
PrimaryRecord == IF LastMerge.primary_chosen = "wine1" THEN fn.a ELSE fn.b

SecondaryRecord == IF LastMerge.primary_chosen = "wine1" THEN fn.b ELSE fn.a

PreferredFields == {"producer", "country", "region", "grape_variety"}

Longer(primary_val, secondary_val) ==
    IF Len(secondary_val) > Len(primary_val) THEN secondary_val ELSE primary_val

\* The value of a field by the rule as stated: the longer string also when
\* neither value contains Japanese.
StatedField(primary_val, secondary_val, primary_has_jp, secondary_has_jp) ==
    IF primary_val = <<>> THEN secondary_val
    ELSE IF secondary_val = <<>> THEN primary_val
    ELSE IF primary_has_jp /\ ~secondary_has_jp THEN primary_val
    ELSE IF secondary_has_jp /\ ~primary_has_jp THEN secondary_val
    ELSE Longer(primary_val, secondary_val)

\* C18 as stated: producer, country, region and grape_variety of the merge
\* are the secondary's value when the primary's is empty, the one value that
\* contains Japanese when exactly one does, and else (both or neither
\* contain Japanese) the longer value, the primary's on equal length.
C18_FieldRule ==
    fn.pc = "merged"
        => \A f \in PreferredFields :
               fn.r1[f] = StatedField(PrimaryRecord[f], SecondaryRecord[f],
                                      contains_japanese(PrimaryRecord[f]),
                                      contains_japanese(SecondaryRecord[f]))

\* The rule with the primary's value kept when neither contains Japanese.
KeptField(primary_val, secondary_val, primary_has_jp, secondary_has_jp) ==
    IF primary_val = <<>> THEN secondary_val
    ELSE IF secondary_val = <<>> THEN primary_val
    ELSE IF primary_has_jp /\ ~secondary_has_jp THEN primary_val
    ELSE IF secondary_has_jp /\ ~primary_has_jp THEN secondary_val
    ELSE IF primary_has_jp /\ secondary_has_jp THEN Longer(primary_val, secondary_val)
    ELSE primary_val

\* C18, amended: as stated, except that when neither value contains
\* Japanese the primary's value is kept whatever the lengths.
C18_FieldRuleKeepsPrimary ==
    fn.pc = "merged"
        => \A f \in PreferredFields :
               fn.r1[f] = KeptField(PrimaryRecord[f], SecondaryRecord[f],
                                    contains_japanese(PrimaryRecord[f]),
                                    contains_japanese(SecondaryRecord[f]))

\* The primary's producer is "Roy", the secondary's the longer "Domaine Roy",
\* and the merge keeps "Roy"; its country is the secondary's.
C18_Witness ==
    /\ fn.pc = "merged"
    /\ PrimaryRecord.producer = LatinProducer.producer
    /\ SecondaryRecord.producer = LatinFields.producer
    /\ fn.r1.producer = LatinProducer.producer
    /\ PrimaryRecord.country = <<>>
    /\ fn.r1.country = LatinFields.country

\* The primary record by the rule: TRUE when it is the first argument.
StatedPrimaryIsFirst(jp_score1, jp_score2, fields1, fields2) ==
    IF (jp_score1 > 0) # (jp_score2 > 0) THEN jp_score1 > 0
    ELSE IF jp_score1 # jp_score2 THEN jp_score1 > jp_score2
    ELSE IF fields1 # fields2 THEN fields1 > fields2
    ELSE TRUE

\* C19: the primary record of merge_wine_info(a, b) is the one record whose
\* Japanese-content score is above 0; with both above 0 and different, the
\* one with the higher score; with equal scores, both zero included, the one
\* with strictly more non-empty optional fields; and on a tie a.
C19_PrimaryRule ==
    fn.pc = "merged"
        => (LastMerge.primary_chosen = "wine1")
               = StatedPrimaryIsFirst(LastMerge.wine1_jp_score,
                                      LastMerge.wine2_jp_score,
                                      count_fields(fn.a), count_fields(fn.b))

\* Two records with the same positive score, the second with more fields:
\* the second is primary.
C19_Witness ==
    /\ fn.pc = "merged"
    /\ LastMerge.wine1_jp_score = 20
    /\ LastMerge.wine2_jp_score = 20
    /\ count_fields(fn.a) = 0
    /\ count_fields(fn.b) = 1
    /\ LastMerge.primary_chosen = "wine2"
    /\ fn.r1.producer = fn.b.producer

\* C20: when the name of one record contains Japanese and the name of the
\* other does not, the first has the higher Japanese-content score whatever
\* the other fields hold, and is the primary record in either argument order.
C20_NameDecides ==
    fn.pc = "merged"
        => /\ contains_japanese(fn.a.name) /\ ~contains_japanese(fn.b.name)
                  => /\ LastMerge.wine1_jp_score > LastMerge.wine2_jp_score
                     /\ LastMerge.primary_chosen = "wine1"
           /\ contains_japanese(fn.b.name) /\ ~contains_japanese(fn.a.name)
                  => /\ LastMerge.wine2_jp_score > LastMerge.wine1_jp_score
                     /\ LastMerge.primary_chosen = "wine2"

\* The first record has a Latin name and Japanese in five other fields
\* (score 9), the second a Japanese name and no other field (score 20): the
\* second is primary.
C20_Witness ==
    /\ fn.pc = "merged"
    /\ ~contains_japanese(fn.a.name)
    /\ LastMerge.wine1_jp_score = 9
    /\ count_fields(fn.a) = 8
    /\ contains_japanese(fn.b.name)
    /\ LastMerge.wine2_jp_score = 20
    /\ count_fields(fn.b) = 0
    /\ LastMerge.primary_chosen = "wine2"

\* The base score of two records: calculate_identity_similarity of their
\* identities.
BaseScore(wine1, wine2) ==
    calculate_identity_similarity(extract_wine_identity(wine1),
                                  extract_wine_identity(wine2))

\* The shared-long-word escalation of two records.
WordScore(wine1, wine2) ==
    WordEscalation(normalize_wine_name(wine1.name), normalize_wine_name(wine2.name))

\* score is at least every one of the five values, each capped at 1.0.
NotBelow(score, base, transliteration, substring, words, producer) ==
    /\ RatLE(RatMin(One, base), score)
    /\ RatLE(RatMin(One, transliteration), score)
    /\ RatLE(RatMin(One, substring), score)
    /\ RatLE(RatMin(One, words), score)
    /\ RatLE(RatMin(One, producer), score)

\* C21: calculate_wine_similarity is never below the base score of the two
\* identities, capped at 1.0, nor below the transliteration, substring,
\* shared-word or producer escalation: each is applied as a maximum.
C21_EscalationsOnlyRaise ==
    fn.pc = "forward"
        => NotBelow(fn.r1, BaseScore(fn.a, fn.b),
                    check_transliteration_similarity(fn.a.name, fn.b.name),
                    check_substring_similarity(fn.a.name, fn.b.name),
                    WordScore(fn.a, fn.b), ProducerEscalation(fn.a, fn.b))

\* Two records of one producer whose score, 0.9, is above the producer
\* escalation 0.7 and above the base score.
C21_Witness ==
    /\ fn.pc = "forward"
    /\ fn.a = WineP
    /\ fn.b = WineQ
    /\ ProducerEscalation(fn.a, fn.b) = Rat(7, 10)
    /\ RatLT(BaseScore(fn.a, fn.b), fn.r1)
    /\ fn.r1 = Rat(9, 10)

\* For each Japanese grape term of wine_terms_jp, the positions of its Latin
\* equivalents in wine_terms_en: pinot, chardonnay, cabernet, merlot,
\* syrah and shiraz, riesling, sauvignon.
GrapeEquivalents == <<{1}, {2}, {3}, {4}, {5, 6}, {7}, {8}>>

\* jp_name contains a Japanese grape term and latin_name its Latin equivalent.
GrapePaired(jp_name, latin_name) ==
    \E k \in 1..Len(wine_terms_jp) :
        /\ Contains(jp_name, wine_terms_jp[k])
        /\ \E e \in GrapeEquivalents[k] : Contains(Lower(latin_name), wine_terms_en[e])

\* C22: when one name contains a Japanese grape term of the fixed array and
\* the other name contains the Latin equivalent of that term,
\* calculate_wine_similarity is at least 0.8.
C22_GrapeTerms ==
    fn.pc = "forward"
        /\ (GrapePaired(fn.a.name, fn.b.name) \/ GrapePaired(fn.b.name, fn.a.name))
        => AtLeast(fn.r1, 80)

\* shorter has a meaningful word (longer than 2 characters, no common word),
\* and every one of them occurs in longer.
MeaningfulWordsWithin(shorter, longer) ==
    /\ Len(shorter) <= Len(longer)
    /\ AllContained(SelectSeq(Split(shorter), SignificantWord), longer)

\* C23: when every meaningful word of the shorter normalized name occurs in
\* the longer normalized name, calculate_wine_similarity is at least 0.85,
\* also when the two names share no whole word.
C23_ContainedName ==
    fn.pc = "forward"
        /\ \/ MeaningfulWordsWithin(normalize_wine_name(fn.a.name),
                                     normalize_wine_name(fn.b.name))
           \/ MeaningfulWordsWithin(normalize_wine_name(fn.b.name),
                                     normalize_wine_name(fn.a.name))
        => AtLeast(fn.r1, 85)

\* Both records have a producer, and the normalized producers share a word
\* longer than 2 characters.
ProducersShareWord(wine1, wine2) ==
    /\ wine1.producer # <<>>
    /\ wine2.producer # <<>>
    /\ LongWords(normalize_wine_name(wine1.producer), 2)
           \cap LongWords(normalize_wine_name(wine2.producer), 2) # {}

\* The record at position j is in the cluster whose nucleus is at position i.
InClusterOf(c, i, j) ==
    \E n \in 1..Len(hist[c].clusters) :
        hist[c].clusters[n][1] = i /\ j \in Range(hist[c].clusters[n])

\* C24: two records whose producers share a word longer than 2 characters
\* score at least 0.7 whatever their names, so at a threshold of 0.7 or less
\* the later record, compared with a nucleus of such a producer, joins the
\* cluster of the nucleus.
C24_ProducerMatch ==
    \A c \in DOMAIN frame :
        Finished(c)
            => \A n \in 1..Len(hist[c].compared) :
                   LET e == hist[c].compared[n]
                   IN  ProducersShareWord(e.wine1, e.wine2)
                           => /\ AtLeast(e.similarity, 70)
                              /\ args[c].threshold <= 70 => InClusterOf(c, e.i, e.j)

\* A returned call at 0.7 on two wines of different names whose producers
\* share "roy": the score is exactly 0.7 and the two are one cluster.
C24_Witness ==
    /\ Finished(1)
    /\ args[1].threshold = 70
    /\ args[1].wines = <<WineRoyRioja, WineRoyChablis>>
    /\ hist[1].compared[1].similarity = Rat(7, 10)
    /\ hist[1].clusters = <<<<1, 2>>>>
    /\ Len(frame[1].result) = 1

\* The description the rule states for a primary and a secondary description:
\* both trimmed, the empty ones left out, the secondary's left out when it
\* equals the primary's, " | " between the two.
StatedDescription(primary_description, secondary_description) ==
    LET first == Strip(primary_description)
        second == Strip(secondary_description)
    IN  IF first = <<>> THEN second
        ELSE IF second = <<>> \/ second = first THEN first
        ELSE first \o <<32, 124, 32>> \o second

\* The trimmed descriptions are different and neither is empty.
DifferentDescriptions(wine1, wine2) ==
    /\ Strip(wine1.description) # <<>>
    /\ Strip(wine2.description) # <<>>
    /\ Strip(wine1.description) # Strip(wine2.description)

\* C25: the merged description is the primary's trimmed description, then
\* " | " and the secondary's trimmed description when that one is not empty
\* and differs; it is absent when both are empty; with two different
\* descriptions it contains both, separated by " | ".
C25_Descriptions ==
    fn.pc = "merged"
        => /\ fn.r1.description
                  = StatedDescription(PrimaryRecord.description,
                                      SecondaryRecord.description)
           /\ fn.a.description = <<>> /\ fn.b.description = <<>>
                  => fn.r1.description = <<>>
           /\ DifferentDescriptions(fn.a, fn.b)
                  => /\ Contains(fn.r1.description, Strip(fn.a.description))
                     /\ Contains(fn.r1.description, Strip(fn.b.description))
                     /\ Contains(fn.r1.description, <<32, 124, 32>>)
                     /\ Len(fn.r1.description)
                            = Len(Strip(fn.a.description))
                                  + Len(Strip(fn.b.description)) + 3

\* The second record is the primary: its description comes first, and the
\* " dry " of the first record follows it, trimmed.
C25_Witness ==
    /\ fn.pc = "merged"
    /\ fn.a.description = LatinFields.description
    /\ fn.b.description = JapaneseFields.description
    /\ LastMerge.primary_chosen = "wine2"
    /\ fn.r1.description
           = JapaneseFields.description \o <<32, 124, 32, 100, 114, 121>>

\* Both records say " dry ": the description is kept once, trimmed.
C25_WitnessSame ==
    /\ fn.pc = "merged"
    /\ fn.a.description = LatinFields.description
    /\ fn.b.description = LatinFields.description
    /\ fn.r1.description = <<100, 114, 121>>

\* C26: the decision recorded for a merge names, as final_name, the name of
\* the record merge_wine_info returns and, as primary_chosen, the record that
\* was the primary.
C26_DecisionRecorded ==
    fn.pc = "merged"
        => /\ LastMerge.final_name = fn.r1.name
           /\ LastMerge.primary_chosen = "wine1" <=> PrimaryIsFirst(fn.a, fn.b)

\* C27: no call changes a record it was given.  The objects of the input
\* list hold the values they had when deduplicate_wines was called, every
\* merge_wine_info call of the fold adds one object, and each object a merge
\* built still holds what that merge returned after the later merges took it
\* as their first argument.
C27_NothingMutated ==
    \A c \in DOMAIN frame :
        frame[c].pc # "idle"
            => LET given == Len(hist[c].objects) - Len(hist[c].merges)
               IN  /\ SubSeq(hist[c].objects, 1, given) = args[c].wines
                   /\ \A m \in 1..Len(hist[c].merges) :
                          hist[c].objects[given + m] = hist[c].merges[m].merged

\* A returned call that folded three records into one: two records were
\* built, the first input record differs from both and is as it was given.
C27_Witness ==
    /\ Finished(1)
    /\ hist[1].clusters = <<<<1, 2, 3>>>>
    /\ Len(hist[1].objects) = 5
    /\ hist[1].objects[1] = args[1].wines[1]
    /\ hist[1].objects[4] # args[1].wines[1]
    /\ hist[1].objects[5] # hist[1].objects[4]
    /\ frame[1].result = <<hist[1].objects[5]>>

\* The sum of the lengths of the sequences of a sequence.
RECURSIVE TotalLen(_)
TotalLen(seqs) == IF seqs = <<>> THEN 0 ELSE Len(Head(seqs)) + TotalLen(Tail(seqs))

\* The clusters of c that hold the input position i.
ClustersOf(c, i) == {n \in 1..Len(hist[c].clusters) : i \in Range(hist[c].clusters[n])}

\* C28: the clusters of a returned call partition the input positions: every
\* position is in exactly one cluster and once in it, the clusters hold
\* input positions only, their sizes sum to the length of the input, and the
\* returned list has one record for each cluster.
C28_Partition ==
    \A c \in DOMAIN frame :
        Finished(c)
            => /\ \A i \in 1..Len(args[c].wines) : Cardinality(ClustersOf(c, i)) = 1
               /\ \A n \in 1..Len(hist[c].clusters) :
                      /\ Range(hist[c].clusters[n]) \subseteq 1..Len(args[c].wines)
                      /\ Cardinality(Range(hist[c].clusters[n]))
                             = Len(hist[c].clusters[n])
               /\ TotalLen(hist[c].clusters) = Len(args[c].wines)
               /\ Len(frame[c].result) = Len(hist[c].clusters)

\* A returned call on three records whose first and third are one cluster
\* and whose second is a cluster of its own.
C28_Witness ==
    /\ Finished(1)
    /\ Len(args[1].wines) = 3
    /\ hist[1].clusters = <<<<1, 3>>, <<2>>>>
    /\ Len(frame[1].result) = 2
    /\ TotalLen(hist[1].clusters) = 3
    /\ args[1].wines[1] # args[1].wines[3]

\* The names of the input records of a cluster.
ClusterNames(wines, cluster) == {wines[cluster[k]].name : k \in 1..Len(cluster)}

\* C29: the name of every returned record is the name of an input record of
\* its cluster, and it has Japanese characters exactly when the name of some
\* record of the cluster has, wherever in the cluster that record is.
C29_NameOfCluster ==
    \A c \in DOMAIN frame :
        Finished(c)
            => \A n \in 1..Len(hist[c].clusters) :
                   LET names == ClusterNames(args[c].wines, hist[c].clusters[n])
                   IN  /\ frame[c].result[n].name \in names
                       /\ contains_japanese(frame[c].result[n].name)
                              <=> \E name \in names : contains_japanese(name)

\* A cluster of three records whose nucleus and last record have Latin names
\* and whose second record has a Japanese name: the Japanese name is returned.
C29_Witness ==
    /\ Finished(1)
    /\ hist[1].clusters = <<<<1, 2, 3>>>>
    /\ ~contains_japanese(args[1].wines[1].name)
    /\ contains_japanese(args[1].wines[2].name)
    /\ ~contains_japanese(args[1].wines[3].name)
    /\ args[1].wines[3].name # args[1].wines[1].name
    /\ frame[1].result[1].name = args[1].wines[2].name

\* C30: when a call on a list that is not empty has returned and nothing
\* else ran since it began, the trace holds the decisions of the merges of
\* that call, in their order, and as many of them as the call returned
\* fewer records than it was given, whatever earlier calls had left.
C30_TraceOfTheCall ==
    \A c \in DOMAIN frame :
        frame[c].pc = "returned" /\ args[c].wines # <<>>
            => /\ debug_merges = OwnMerges(c)
               /\ Len(debug_merges) = Len(args[c].wines) - Len(frame[c].result)

\* The second call has returned after a call that merged two records and a
\* direct merge: the trace holds its one merge only.
C30_Witness ==
    /\ frame[1].pc = "shown"
    /\ Len(hist[1].merges) = 1
    /\ direct = 1
    /\ frame[2].pc = "returned"
    /\ Len(args[2].wines) = 2
    /\ Len(frame[2].result) = 1
    /\ debug_merges = <<hist[2].merges[1].entry>>
    /\ hist[2].merges[1].entry # hist[1].merges[1].entry

==========================================================================
